---- MODULE Spec2Model ----
(***************************************************************************)
(* Model of the Alkinson's Newsletter services.                            *)
(*                                                                         *)
(*  - EmailSender (src/lambda/email_agent/email_sender.py): the per        *)
(*    instance daily counter, the error list, send_single_email,           *)
(*    send_batch and send_to_all_batches.                                  *)
(*  - DynamoDBClient (src/lambda/shared/aws_clients.py): the subscriber    *)
(*    table and add_subscriber, get_subscriber, update_subscriber_status   *)
(*    and confirm_subscriber.                                              *)
(*                                                                         *)
(* Every operation is one action; the value it returns (or the error it    *)
(* raises) is kept in lastCall together with its arguments.                *)
(***************************************************************************)
EXTENDS Integers, Sequences, FiniteSets, TLC

VARIABLES
    emails_sent_today,  \* EmailSender.emails_sent_today
    send_errors,        \* EmailSender.send_errors
    ses_accepted,       \* number of messages the email service has accepted
    table,              \* the subscriber table: email -> item, or Absent
    now,                \* the clock read by datetime.now
    bucket,             \* the content bucket: key -> body of the object
    today,              \* the days passed since the first Content Agent run
    lastCall            \* the last operation: name, arguments, outcome

vars == <<emails_sent_today, send_errors, ses_accepted, table, now, bucket, today,
          lastCall>>

senderVars == <<emails_sent_today, send_errors, ses_accepted>>
tableVars == <<table, now>>
contentVars == <<bucket, today>>

\* Python's None where a string is expected
None == "None"
\* no item under a key of the table, and Python's None where a Subscriber is expected
Absent == [absent |-> TRUE]

----------------------------------------------------------------------------
(* Bounds of the model *)

\* number of subscribers that take part in sends
NumSubscribers == 2
\* send_errors is kept no longer than this
MaxErrors == 1
\* number of distinct confirmation tokens
NumTokens == 2
\* the clock stops here
MaxTime == 1

----------------------------------------------------------------------------
(* EmailSender *)

SES_DAILY_LIMIT == 200

EmailOf(i) == "u" \o ToString(i) \o "@example.org"

\* the list of send-ready subscribers, as the table scan returns it
subscriber_list == [i \in 1..NumSubscribers |-> EmailOf(i)]

Min(a, b) == IF a < b THEN a ELSE b
Max(a, b) == IF a > b THEN a ELSE b

\* seq[-k:] where seq[:k] is meant: keeps the end of the batch
SliceSuffix(seq, k) ==
    IF k <= 0 THEN <<>> ELSE SubSeq(seq, Max(Len(seq) - k, 0) + 1, Len(seq))

\* Python's seq[:k]
SlicePrefix(seq, k) ==
    IF k >= 0 THEN SubSeq(seq, 1, Min(k, Len(seq)))
    ELSE SubSeq(seq, 1, Max(Len(seq) + k, 0))

\* seq[k + 1:] where seq[k:] is meant: leaves the first remaining element out
SliceFromNext(seq, k) == SubSeq(seq, Min(k + 1, Len(seq)) + 1, Len(seq))

\* Python's seq[k:] for k >= 0
SliceFrom(seq, k) == SubSeq(seq, Min(k, Len(seq)) + 1, Len(seq))

RECURSIVE SumLen(_)
SumLen(batches) ==
    IF batches = <<>> THEN 0 ELSE Len(Head(batches)) + SumLen(Tail(batches))

\* the sender's fields as one value, threaded through the loops
SenderState == [emails_sent_today |-> emails_sent_today,
                send_errors |-> send_errors,
                ses_accepted |-> ses_accepted,
                trace |-> <<>>]

\* emails per second of the free tier
SES_RATE_LIMIT == 1

\* what a call does in time, in order (st.trace): a message handed to
\* send_single_email, or a time.sleep of so many seconds
SendEvent(subscriber) == [kind |-> "send", email |-> subscriber, seconds |-> 0]
SleepEvent(seconds) == [kind |-> "sleep", email |-> None, seconds |-> seconds]

\* time.sleep(seconds)
sleep(st, seconds) == [st EXCEPT !.trace = Append(@, SleepEvent(seconds))]

check_sending_limits(st, batch_size) ==
    ~ (st.emails_sent_today + batch_size > SES_DAILY_LIMIT)

\* send_single_email that leaves the daily counter as it is
send_single_email_never_counts(st, subscriber, delivers) ==
    LET result == [email |-> subscriber, success |-> FALSE,
                   message_id |-> None, error |-> None]
    IN IF delivers
       THEN [st |-> [st EXCEPT !.ses_accepted = @ + 1,
                               !.trace = Append(@, SendEvent(subscriber))],
             result |-> [result EXCEPT !.success = TRUE,
                                       !.message_id = ToString(st.ses_accepted + 1)]]
       ELSE LET failed == [result EXCEPT !.error = "error"]
            IN [st |-> [st EXCEPT !.send_errors = Append(@, failed),
                                  !.trace = Append(@, SendEvent(subscriber))],
                result |-> failed]

\* send_single_email counting a failed send as sent
send_single_email_counts_failure(st, subscriber, delivers) ==
    LET result == [email |-> subscriber, success |-> FALSE,
                   message_id |-> None, error |-> None]
    IN IF delivers
       THEN [st |-> [st EXCEPT !.emails_sent_today = @ + 1,
                               !.ses_accepted = @ + 1,
                               !.trace = Append(@, SendEvent(subscriber))],
             result |-> [result EXCEPT !.success = TRUE,
                                       !.message_id = ToString(st.ses_accepted + 1)]]
       ELSE LET failed == [result EXCEPT !.error = "error"]
            IN [st |-> [st EXCEPT !.send_errors = Append(@, failed),
                                  !.emails_sent_today = @ + 1,
                                  !.trace = Append(@, SendEvent(subscriber))],
                result |-> failed]

\* delivers: format_email and ses_client.send_email both return for this
\* subscriber; otherwise one of them raises
send_single_email(st, subscriber, delivers) ==
    LET result == [email |-> subscriber, success |-> FALSE,
                   message_id |-> None, error |-> None]
    IN IF delivers
       THEN [st |-> [st EXCEPT !.emails_sent_today = @ + 1,
                               !.ses_accepted = @ + 1,
                               !.trace = Append(@, SendEvent(subscriber))],
             result |-> [result EXCEPT !.success = TRUE,
                                       !.message_id = ToString(st.ses_accepted + 1)]]
       ELSE LET failed == [result EXCEPT !.error = "error"]
            IN [st |-> [st EXCEPT !.send_errors = Append(@, failed),
                                  !.trace = Append(@, SendEvent(subscriber))],
                result |-> failed]

RECURSIVE send_batch_loop(_, _, _, _, _)

\* send_batch's loop leaving at the first failed send, as if the error propagated
send_batch_loop_stops_at_failure(st, batch_results, subscribers, i, delivers) ==
    IF i > Len(subscribers)
    THEN [st |-> st, result |-> batch_results]
    ELSE IF st.emails_sent_today >= SES_DAILY_LIMIT
    THEN [st |-> st,
          result |-> [batch_results EXCEPT
                         !.skipped = @ + (Len(subscribers) - (i - 1))]]
    ELSE LET sent == send_single_email(st, subscribers[i], delivers[subscribers[i]])
             r == sent.result
         IN IF r.success
            THEN send_batch_loop(IF i < Len(subscribers)
                                 THEN sleep(sent.st, 1 \div SES_RATE_LIMIT)
                                 ELSE sent.st,
                                 [batch_results EXCEPT !.successful = @ + 1,
                                                       !.results = Append(@, r)],
                                 subscribers, i + 1, delivers)
            ELSE [st |-> sent.st,
                  result |-> [batch_results EXCEPT !.failed = @ + 1,
                                                   !.results = Append(@, r)]]

send_batch_loop(st, batch_results, subscribers, i, delivers) ==
    IF i > Len(subscribers)
    THEN [st |-> st, result |-> batch_results]
    ELSE IF st.emails_sent_today >= SES_DAILY_LIMIT
    THEN [st |-> st,
          result |-> [batch_results EXCEPT
                         !.skipped = @ + (Len(subscribers) - (i - 1))]]
    ELSE LET sent == send_single_email(st, subscribers[i], delivers[subscribers[i]])
             r == sent.result
             counted == IF r.success
                        THEN [batch_results EXCEPT !.successful = @ + 1]
                        ELSE [batch_results EXCEPT !.failed = @ + 1]
         IN send_batch_loop(IF i < Len(subscribers)
                            THEN sleep(sent.st, 1 \div SES_RATE_LIMIT)
                            ELSE sent.st,
                            [counted EXCEPT !.results = Append(@, r)],
                            subscribers, i + 1, delivers)

\* send_batch cutting the batch to the quota without counting the rest as skipped
send_batch_cut_uncounted(st, subscribers, delivers) ==
    LET batch_results == [total |-> Len(subscribers), successful |-> 0,
                          failed |-> 0, skipped |-> 0, results |-> <<>>]
        within == check_sending_limits(st, Len(subscribers))
        remaining == SES_DAILY_LIMIT - st.emails_sent_today
        truncated == IF within THEN subscribers
                     ELSE SlicePrefix(subscribers, remaining)
    IN send_batch_loop(st, batch_results, truncated, 1, delivers)

send_batch(st, subscribers, delivers) ==
    LET batch_results == [total |-> Len(subscribers), successful |-> 0,
                          failed |-> 0, skipped |-> 0, results |-> <<>>]
        within == check_sending_limits(st, Len(subscribers))
        remaining == SES_DAILY_LIMIT - st.emails_sent_today
        truncated == IF within THEN subscribers
                     ELSE SlicePrefix(subscribers, remaining)
        started == IF within THEN batch_results
                   ELSE [batch_results EXCEPT
                            !.skipped = batch_results.total - Len(truncated)]
    IN send_batch_loop(st, started, truncated, 1, delivers)

RECURSIVE send_to_all_batches_loop(_, _, _, _, _)

\* the loop over the batches without the delay between batches
send_to_all_batches_loop_without_delay(st, overall_results, subscriber_batches, batch_num, delivers) ==
    IF batch_num > Len(subscriber_batches)
    THEN [st |-> st, result |-> overall_results]
    ELSE IF st.emails_sent_today >= SES_DAILY_LIMIT
    THEN [st |-> st,
          result |-> [overall_results EXCEPT
                         !.skipped = @ + SumLen(SliceFrom(subscriber_batches,
                                                          batch_num - 1))]]
    ELSE LET sent == send_batch(st, subscriber_batches[batch_num], delivers)
             batch_result == sent.result
         IN send_to_all_batches_loop(
                sent.st,
                [overall_results EXCEPT
                    !.batch_results = Append(@, [batch_number |-> batch_num,
                                                 result |-> batch_result]),
                    !.successful = @ + batch_result.successful,
                    !.failed = @ + batch_result.failed,
                    !.skipped = @ + batch_result.skipped],
                subscriber_batches, batch_num + 1, delivers)

send_to_all_batches_loop(st, overall_results, subscriber_batches, batch_num, delivers) ==
    IF batch_num > Len(subscriber_batches)
    THEN [st |-> st, result |-> overall_results]
    ELSE IF st.emails_sent_today >= SES_DAILY_LIMIT
    THEN [st |-> st,
          result |-> [overall_results EXCEPT
                         !.skipped = @ + SumLen(SliceFrom(subscriber_batches,
                                                          batch_num - 1))]]
    ELSE LET sent == send_batch(st, subscriber_batches[batch_num], delivers)
             batch_result == sent.result
         IN send_to_all_batches_loop(
                IF batch_num < Len(subscriber_batches) THEN sleep(sent.st, 2)
                ELSE sent.st,
                [overall_results EXCEPT
                    !.batch_results = Append(@, [batch_number |-> batch_num,
                                                 result |-> batch_result]),
                    !.successful = @ + batch_result.successful,
                    !.failed = @ + batch_result.failed,
                    !.skipped = @ + batch_result.skipped],
                subscriber_batches, batch_num + 1, delivers)

send_to_all_batches(st, subscriber_batches, delivers) ==
    LET overall_results == [total_batches |-> Len(subscriber_batches),
                            total_subscribers |-> SumLen(subscriber_batches),
                            successful |-> 0, failed |-> 0, skipped |-> 0,
                            batch_results |-> <<>>]
        done == send_to_all_batches_loop(st, overall_results,
                                         subscriber_batches, 1, delivers)
    IN [st |-> done.st,
        result |-> [total_batches |-> done.result.total_batches,
                    total_subscribers |-> done.result.total_subscribers,
                    successful |-> done.result.successful,
                    failed |-> done.result.failed,
                    skipped |-> done.result.skipped,
                    batch_results |-> done.result.batch_results,
                    emails_sent_today |-> done.st.emails_sent_today]]

\* SubscriberManager.batch_subscribers
RECURSIVE batch_subscribers_from(_, _, _)

\* the loop leaving out a last batch that is shorter than batch_size
batch_subscribers_from_full_only(subscribers, batch_size, i) ==
    IF i + batch_size > Len(subscribers) THEN <<>>
    ELSE <<SubSeq(subscribers, i + 1, Min(i + batch_size, Len(subscribers)))>>
         \o batch_subscribers_from(subscribers, batch_size, i + batch_size)

batch_subscribers_from(subscribers, batch_size, i) ==
    IF i >= Len(subscribers) THEN <<>>
    ELSE <<SubSeq(subscribers, i + 1, Min(i + batch_size, Len(subscribers)))>>
         \o batch_subscribers_from(subscribers, batch_size, i + batch_size)

batch_subscribers(subscribers, batch_size) ==
    batch_subscribers_from(subscribers, batch_size, 0)

\* the batches a caller hands to send_batch: contiguous slices of the list
Batches ==
    {SubSeq(subscriber_list, a, b) : a \in 1..NumSubscribers + 1, b \in 0..NumSubscribers}

\* the batch lists a caller hands to send_to_all_batches
BatchLists ==
    {batch_subscribers(b, size) : b \in Batches, size \in 1..NumSubscribers}

Range(seq) == {seq[i] : i \in 1..Len(seq)}

RECURSIVE Flatten(_)
Flatten(batches) ==
    IF batches = <<>> THEN <<>> ELSE Head(batches) \o Flatten(Tail(batches))

----------------------------------------------------------------------------
(* Actions of the EmailSender *)

SendBatch ==
    \E subscribers \in Batches :
    \E delivers \in [Range(subscribers) -> BOOLEAN] :
    \E before \in {SenderState} :
    \E done \in {send_batch(before, subscribers, delivers)} :
           /\ Len(done.st.send_errors) <= MaxErrors
           /\ emails_sent_today' = done.st.emails_sent_today
           /\ send_errors' = done.st.send_errors
           /\ ses_accepted' = done.st.ses_accepted
           /\ lastCall' = [op |-> "send_batch", args |-> subscribers,
                           before |-> before, ret |-> done.result]
           /\ UNCHANGED <<tableVars, contentVars>>

SendToAllBatches ==
    \E subscriber_batches \in BatchLists :
    \E delivers \in [Range(Flatten(subscriber_batches)) -> BOOLEAN] :
    \E before \in {SenderState} :
    \E done \in {send_to_all_batches(before, subscriber_batches, delivers)} :
           /\ Len(done.st.send_errors) <= MaxErrors
           /\ emails_sent_today' = done.st.emails_sent_today
           /\ send_errors' = done.st.send_errors
           /\ ses_accepted' = done.st.ses_accepted
           /\ lastCall' = [op |-> "send_to_all_batches", args |-> subscriber_batches,
                           before |-> before, ret |-> done.result]
           /\ UNCHANGED <<tableVars, contentVars>>

----------------------------------------------------------------------------
(* Subscriber model and the subscriber table *)

\* SubscriberStatus members and their values
SubscriberStatus == {"ACTIVE", "UNSUBSCRIBED", "PENDING_CONFIRMATION"}

StatusValue(status) ==
    CASE status = "ACTIVE" -> "active"
      [] status = "UNSUBSCRIBED" -> "unsubscribed"
      [] status = "PENDING_CONFIRMATION" -> "pending_confirmation"

StatusOfValue(value) == CHOOSE status \in SubscriberStatus : StatusValue(status) = value

Times == 0..MaxTime

\* datetime.isoformat and datetime.fromisoformat
isoformat(t) == "T" \o ToString(t)
fromisoformat(text) == CHOOSE t \in Times : isoformat(t) = text

\* the addresses that subscribe
Emails == {EmailOf(1), EmailOf(2)}

ConfirmationTokens == {"c" \o ToString(i) : i \in 1..NumTokens}
\* what generate_unsubscribe_token can return: opaque values the code stores
\* and never compares
UnsubscribeTokens == {"k1", "k2"}

\* a Subscriber that is active whatever status it is given
SubscriberAlwaysActive(email, subscribed_date, status, confirmation_token, unsubscribe_token) ==
    [email |-> email, subscribed_date |-> subscribed_date, status |-> "ACTIVE",
     confirmation_token |-> confirmation_token,
     unsubscribe_token |-> unsubscribe_token]

Subscriber(email, subscribed_date, status, confirmation_token, unsubscribe_token) ==
    [email |-> email, subscribed_date |-> subscribed_date, status |-> status,
     confirmation_token |-> confirmation_token,
     unsubscribe_token |-> unsubscribe_token]

to_dynamodb_item(subscriber) ==
    [email |-> subscriber.email,
     subscribed_date |-> isoformat(subscriber.subscribed_date),
     status |-> StatusValue(subscriber.status),
     confirmation_token |-> subscriber.confirmation_token,
     unsubscribe_token |-> subscriber.unsubscribe_token]

from_dynamodb_item(item) ==
    Subscriber(item.email, fromisoformat(item.subscribed_date),
               StatusOfValue(item.status), item.confirmation_token,
               item.unsubscribe_token)

\* the outcome of one client operation: the table after it, and the value it
\* returns or the error it raises
Returned(tbl, value) == [tbl |-> tbl, raised |-> None, ret |-> value]
Raised(tbl, error) == [tbl |-> tbl, raised |-> error, ret |-> Absent]

(* Requests to the table service.  A request is answered, or fails with a   *)
(* service error on every attempt the retry decorator makes (fault names    *)
(* the request that fails so, None when every request is answered).         *)

\* put_item without the condition: an existing item is replaced
put_item_overwrite(tbl, item) ==
    [tbl |-> [tbl EXCEPT ![item.email] = item], error |-> None]

\* put_item with ConditionExpression attribute_not_exists(email)
put_item_if_absent(tbl, item) ==
    IF tbl[item.email] = Absent
    THEN [tbl |-> [tbl EXCEPT ![item.email] = item], error |-> None]
    ELSE [tbl |-> tbl, error |-> "ConditionalCheckFailedException"]

\* update_item without the condition: a missing item is created by the update
update_item_status_upsert(tbl, email, value) ==
    IF tbl[email] # Absent
    THEN [tbl |-> [tbl EXCEPT ![email].status = value], error |-> None]
    ELSE [tbl |-> [tbl EXCEPT ![email] = [email |-> email, status |-> value]],
          error |-> None]

\* update_item SET #status = :status with ConditionExpression attribute_exists(email)
update_item_status(tbl, email, value) ==
    IF tbl[email] # Absent
    THEN [tbl |-> [tbl EXCEPT ![email].status = value], error |-> None]
    ELSE [tbl |-> tbl, error |-> "ConditionalCheckFailedException"]

get_subscriber(tbl, email, fault) ==
    IF fault = "get_item" THEN Raised(tbl, "ServiceError")
    ELSE IF tbl[email] # Absent THEN Returned(tbl, from_dynamodb_item(tbl[email]))
    ELSE Returned(tbl, Absent)

\* add_subscriber returning the subscriber it built when the email exists already
add_subscriber_returns_new(tbl, email, confirmation_token, unsubscribe_token, clock, fault) ==
    LET subscriber == Subscriber(email, clock, "PENDING_CONFIRMATION",
                                 confirmation_token, unsubscribe_token)
        put == put_item_if_absent(tbl, to_dynamodb_item(subscriber))
    IN IF fault = "put_item" THEN Raised(tbl, "ServiceError")
       ELSE Returned(put.tbl, subscriber)

add_subscriber(tbl, email, confirmation_token, unsubscribe_token, clock, fault) ==
    LET subscriber == Subscriber(email, clock, "PENDING_CONFIRMATION",
                                 confirmation_token, unsubscribe_token)
        put == put_item_if_absent(tbl, to_dynamodb_item(subscriber))
    IN IF fault = "put_item" THEN Raised(tbl, "ServiceError")
       ELSE IF put.error = None THEN Returned(put.tbl, subscriber)
       ELSE get_subscriber(tbl, email, fault)

update_subscriber_status(tbl, email, status, fault) ==
    LET update == update_item_status(tbl, email, StatusValue(status))
    IN IF fault = "update_item" THEN Raised(tbl, "ServiceError")
       ELSE IF update.error = None THEN Returned(update.tbl, TRUE)
       ELSE Returned(tbl, FALSE)

\* confirm_subscriber without the token validation
confirm_subscriber_any_token(tbl, email, confirmation_token, fault) ==
    LET got == get_subscriber(tbl, email, fault)
    IN IF got.raised # None THEN got
       ELSE IF got.ret = Absent THEN Returned(tbl, FALSE)
       ELSE update_subscriber_status(tbl, email, "ACTIVE", fault)

confirm_subscriber(tbl, email, confirmation_token, fault) ==
    LET got == get_subscriber(tbl, email, fault)
    IN IF got.raised # None THEN got
       ELSE IF got.ret = Absent THEN Returned(tbl, FALSE)
       ELSE IF got.ret.confirmation_token # confirmation_token
       THEN Returned(tbl, FALSE)
       ELSE update_subscriber_status(tbl, email, "ACTIVE", fault)

\* the statuses the callers of update_subscriber_status pass
\* (handle_sns_notification, the unsubscribe endpoint)
CallerStatuses == {"UNSUBSCRIBED"}

----------------------------------------------------------------------------
(* Actions of the table client *)

TableCall(op, email, token, fault, before, done) ==
    [op |-> op, email |-> email, token |-> token, fault |-> fault,
     before |-> before, raised |-> done.raised, ret |-> done.ret]

AddSubscriber ==
    \E email \in Emails, confirmation_token \in ConfirmationTokens :
    \E unsubscribe_token \in UnsubscribeTokens, fault \in {None, "put_item", "get_item"} :
    \E done \in {add_subscriber(table, email, confirmation_token,
                                unsubscribe_token, now, fault)} :
        /\ table' = done.tbl
        /\ lastCall' = TableCall("add_subscriber", email, confirmation_token,
                                 fault, table, done)
        /\ UNCHANGED <<now, senderVars, contentVars>>

GetSubscriber ==
    \E email \in Emails, fault \in {None, "get_item"} :
    \E done \in {get_subscriber(table, email, fault)} :
        /\ table' = done.tbl
        /\ lastCall' = TableCall("get_subscriber", email, None, fault, table, done)
        /\ UNCHANGED <<now, senderVars, contentVars>>

UpdateSubscriberStatus ==
    \E email \in Emails, status \in CallerStatuses, fault \in {None, "update_item"} :
    \E done \in {update_subscriber_status(table, email, status, fault)} :
        /\ table' = done.tbl
        /\ lastCall' = TableCall("update_subscriber_status", email, status,
                                 fault, table, done)
        /\ UNCHANGED <<now, senderVars, contentVars>>

ConfirmSubscriber ==
    \E email \in Emails, confirmation_token \in ConfirmationTokens :
    \E fault \in {None, "get_item", "update_item"} :
    \E done \in {confirm_subscriber(table, email, confirmation_token, fault)} :
        /\ table' = done.tbl
        /\ lastCall' = TableCall("confirm_subscriber", email, confirmation_token,
                                 fault, table, done)
        /\ UNCHANGED <<now, senderVars, contentVars>>

\* time passes
Tick ==
    /\ now < MaxTime
    /\ now' = now + 1
    /\ UNCHANGED <<table, lastCall, senderVars, contentVars>>

NoCall == [op |-> "none"]

\* the content bucket without any object
EmptyBucket == [key \in {} |-> Absent]

Init ==
    /\ emails_sent_today = 0
    /\ send_errors = <<>>
    /\ ses_accepted = 0
    /\ table = [email \in Emails |-> Absent]
    /\ now = 0
    /\ bucket = EmptyBucket
    /\ today = 0
    /\ lastCall = NoCall

SenderNext == SendBatch \/ SendToAllBatches

SenderSpec == Init /\ [][SenderNext]_vars

TableNext ==
    \/ AddSubscriber
    \/ GetSubscriber
    \/ UpdateSubscriberStatus
    \/ ConfirmSubscriber
    \/ Tick

TableSpec == Init /\ [][TableNext]_vars

----------------------------------------------------------------------------
(* Properties of the EmailSender *)

IsSendBatch == lastCall.op = "send_batch"
IsSendToAllBatches == lastCall.op = "send_to_all_batches"

\* the addresses of a list of send results, in the order of the sends
EmailsOf(results) == [i \in 1..Len(results) |-> results[i].email]

Succeeded(results) == SelectSeq(results, LAMBDA r : r.success)
Failed(results) == SelectSeq(results, LAMBDA r : ~ r.success)

\* C1: when emails_sent_today = s and a batch of n subscribers has
\* s + n > SES_DAILY_LIMIT, send_batch attempts exactly the first
\* SES_DAILY_LIMIT - s subscribers of the batch, in order, and reports
\* skipped = n - (SES_DAILY_LIMIT - s).
C1_TruncatesToQuota ==
    IsSendBatch =>
        LET s == lastCall.before.emails_sent_today
            n == Len(lastCall.args)
        IN (s <= SES_DAILY_LIMIT /\ s + n > SES_DAILY_LIMIT) =>
              /\ EmailsOf(lastCall.ret.results)
                    = SubSeq(lastCall.args, 1, SES_DAILY_LIMIT - s)
              /\ lastCall.ret.skipped = n - (SES_DAILY_LIMIT - s)
              /\ lastCall.ret.total = n

\* a batch that is cut: some of it is sent and some of it is skipped
C1_Witness ==
    /\ IsSendBatch
    /\ lastCall.before.emails_sent_today + Len(lastCall.args) > SES_DAILY_LIMIT
    /\ Len(lastCall.ret.results) >= 1
    /\ lastCall.ret.skipped >= 1

\* C2: over any sequence of send_batch and send_to_all_batches calls,
\* emails_sent_today never decreases, never exceeds SES_DAILY_LIMIT and
\* equals the number of sends the email service accepted so far.
C2_CounterBoundedMonotone ==
    /\ [](emails_sent_today <= SES_DAILY_LIMIT /\ emails_sent_today = ses_accepted)
    /\ [][emails_sent_today' >= emails_sent_today]_vars

\* the limit is reached in a history that contains a failed send
C2_Witness ==
    /\ emails_sent_today = SES_DAILY_LIMIT
    /\ send_errors # <<>>
    /\ lastCall.op \in {"send_batch", "send_to_all_batches"}
    /\ lastCall.before.emails_sent_today < SES_DAILY_LIMIT

\* the send results of a send_to_all_batches run, batch after batch
RECURSIVE AllResults(_)
AllResults(batch_results) ==
    IF batch_results = <<>> THEN <<>>
    ELSE Head(batch_results).result.results \o AllResults(Tail(batch_results))

\* C3: send_to_all_batches takes the batches in list order and the
\* subscribers of a batch in order; no send is attempted once
\* emails_sent_today has reached SES_DAILY_LIMIT, and every subscriber of a
\* batch that was not started is counted as skipped.
C3_BatchesInOrderUntilLimit ==
    IsSendToAllBatches =>
        LET batches == lastCall.args
            done == lastCall.ret.batch_results
            attempts == AllResults(done)
            s == lastCall.before.emails_sent_today
        IN /\ Len(done) <= Len(batches)
           /\ \A j \in 1..Len(done) :
                 /\ done[j].batch_number = j
                 /\ \E k \in 0..Len(batches[j]) :
                       EmailsOf(done[j].result.results) = SubSeq(batches[j], 1, k)
           /\ \A a \in 1..Len(attempts) :
                 s + Len(Succeeded(SubSeq(attempts, 1, a - 1))) < SES_DAILY_LIMIT
           /\ Len(done) < Len(batches) => emails_sent_today = SES_DAILY_LIMIT
           /\ lastCall.ret.skipped
                 = SumLen(batches) - Len(attempts)
           /\ lastCall.ret.skipped
                 >= SumLen(SubSeq(batches, Len(done) + 1, Len(batches)))

\* the limit is reached by a send of the run and a later batch is not started
C3_Witness ==
    /\ IsSendToAllBatches
    /\ Len(lastCall.ret.batch_results) >= 1
    /\ Len(lastCall.ret.batch_results) < Len(lastCall.args)
    /\ Len(AllResults(lastCall.ret.batch_results)) >= 1
    /\ lastCall.ret.skipped >= 1

\* C4: a send that fails inside send_single_email is recorded as a failure
\* with its error text and appended to send_errors, leaves emails_sent_today
\* unchanged and does not stop send_batch, which attempts every later
\* recipient the quota admits; a send that succeeds increases the counter by
\* exactly 1 and leaves send_errors unchanged.
C4_FailureIsContained ==
    IsSendBatch =>
        LET results == lastCall.ret.results
            before == lastCall.before
        IN /\ \A i \in 1..Len(results) :
                 IF results[i].success
                 THEN results[i].error = None /\ results[i].message_id # None
                 ELSE results[i].error # None /\ results[i].message_id = None
           /\ send_errors = before.send_errors \o Failed(results)
           /\ emails_sent_today = before.emails_sent_today + Len(Succeeded(results))
           /\ EmailsOf(results)
                 = SubSeq(lastCall.args, 1,
                          Min(Len(lastCall.args),
                              SES_DAILY_LIMIT - before.emails_sent_today))
           /\ lastCall.ret.failed = Len(Failed(results))
           /\ lastCall.ret.successful = Len(Succeeded(results))

\* a send fails and the next recipient of the batch is still attempted
C4_Witness ==
    /\ IsSendBatch
    /\ Len(lastCall.ret.results) >= 2
    /\ ~ lastCall.ret.results[1].success
    /\ lastCall.ret.results[2].success

----------------------------------------------------------------------------
(* Properties of the table client *)

IsCall(op) == lastCall.op = op

\* the item the call's email had before the call
StoredBefore == lastCall.before[lastCall.email]

\* the call came back with this value
ReturnedValue(value) == lastCall.raised = None /\ lastCall.ret = value

\* the call came back with the value unless a request of it kept failing, and
\* the only error that leaves it is that service error
ReturnsUnlessFault(value) ==
    /\ lastCall.fault = None => ReturnedValue(value)
    /\ lastCall.raised # None =>
          lastCall.raised = "ServiceError" /\ lastCall.fault # None

\* C5: confirm_subscriber with a token that differs from the stored
\* confirmation_token of a pending_confirmation record returns false and
\* leaves the record unchanged; for an email without a record it returns
\* false and creates nothing.
C5_ConfirmRejectsWrongToken ==
    IsCall("confirm_subscriber") =>
        /\ ( /\ StoredBefore # Absent
             /\ StoredBefore.status = "pending_confirmation"
             /\ StoredBefore.confirmation_token # lastCall.token )
           => /\ ReturnsUnlessFault(FALSE)
              /\ table = lastCall.before
              /\ table[lastCall.email].status = "pending_confirmation"
        /\ StoredBefore = Absent
           => /\ ReturnsUnlessFault(FALSE)
              /\ table = lastCall.before

\* a pending record is confirmed with the wrong token and the call returns false
C5_Witness ==
    /\ IsCall("confirm_subscriber")
    /\ StoredBefore # Absent
    /\ StoredBefore.status = "pending_confirmation"
    /\ StoredBefore.confirmation_token # lastCall.token
    /\ ReturnedValue(FALSE)

IsActive(item) == item # Absent /\ item.status = "active"

\* C6: a record's status changes to active only in a confirm_subscriber step
\* whose token equals the confirmation_token stored in that record, and
\* add_subscriber creates records in pending_confirmation.
C6_ActiveOnlyByTokenMatch ==
    [][\A email \in Emails :
          /\ (IsActive(table'[email]) /\ ~ IsActive(table[email]))
             => /\ lastCall'.op = "confirm_subscriber"
                /\ lastCall'.email = email
                /\ table[email] # Absent
                /\ lastCall'.token = table[email].confirmation_token
          /\ (table[email] = Absent /\ table'[email] # Absent)
             => /\ lastCall'.op = "add_subscriber"
                /\ lastCall'.email = email
                /\ table'[email].status = "pending_confirmation"
      ]_vars

\* a pending record has just become active by a confirm_subscriber call
C6_Witness ==
    /\ IsCall("confirm_subscriber")
    /\ StoredBefore # Absent
    /\ StoredBefore.status = "pending_confirmation"
    /\ ReturnedValue(TRUE)
    /\ IsActive(table[lastCall.email])

\* C7: a record holds a confirmation token only while its status is
\* pending_confirmation: an active or unsubscribed record has none.
C7_TokenOnlyWhilePending ==
    \A email \in Emails :
        (table[email] # Absent /\ table[email].status \in {"active", "unsubscribed"})
        => table[email].confirmation_token = None

\* C8: update_subscriber_status(email, UNSUBSCRIBED) for an email without a
\* record returns false without raising and leaves the table unchanged; for
\* a record that is unsubscribed already it returns true and the record
\* stays unsubscribed.
C8_UnsubscribeMissingOrRepeated ==
    (IsCall("update_subscriber_status") /\ lastCall.token = "UNSUBSCRIBED") =>
        /\ StoredBefore = Absent
           => /\ ReturnsUnlessFault(FALSE)
              /\ table = lastCall.before
        /\ (StoredBefore # Absent /\ StoredBefore.status = "unsubscribed")
           => /\ ReturnsUnlessFault(TRUE)
              /\ table = lastCall.before
              /\ table[lastCall.email].status = "unsubscribed"

\* an unknown email is unsubscribed while another email has a record
C8_Witness ==
    /\ IsCall("update_subscriber_status")
    /\ StoredBefore = Absent
    /\ ReturnedValue(FALSE)
    /\ \E other \in Emails : table[other] # Absent

\* an unsubscribed record is unsubscribed again
C8_WitnessRepeated ==
    /\ IsCall("update_subscriber_status")
    /\ StoredBefore # Absent
    /\ StoredBefore.status = "unsubscribed"
    /\ ReturnedValue(TRUE)

\* C9: add_subscriber for an email that has a record already does not raise
\* for that, leaves the stored record unchanged in every attribute and
\* returns the existing record; the table holds one record per email.
C9_AddExistingKeepsRecord ==
    (IsCall("add_subscriber") /\ StoredBefore # Absent) =>
        /\ table = lastCall.before
        /\ ReturnsUnlessFault(from_dynamodb_item(StoredBefore))
        /\ \A email \in Emails :
              table[email] # Absent => table[email].email = email

\* an existing record is added again with another confirmation token, later
C9_Witness ==
    /\ IsCall("add_subscriber")
    /\ StoredBefore # Absent
    /\ StoredBefore.confirmation_token # lastCall.token
    /\ fromisoformat(StoredBefore.subscribed_date) < now
    /\ lastCall.raised = None
    /\ lastCall.ret.confirmation_token # lastCall.token

\* C10: no operation deletes a record, and update_subscriber_status and
\* confirm_subscriber change only the status: a record, once it exists,
\* exists in every later state with the unsubscribe_token and the
\* subscribed_date it was created with.
C10_RecordIsDurable ==
    [][\A email \in Emails :
          table[email] # Absent =>
             /\ table'[email] # Absent
             /\ table'[email].unsubscribe_token = table[email].unsubscribe_token
             /\ table'[email].subscribed_date = table[email].subscribed_date
             /\ table'[email].email = table[email].email
             /\ lastCall'.op \in {"update_subscriber_status", "confirm_subscriber"}
                => table'[email].confirmation_token = table[email].confirmation_token
      ]_vars

\* a record has been through a confirmation and an unsubscription, and an
\* add_subscriber at a later time and with another unsubscribe token
\* has left it as it was
C10_Witness ==
    /\ IsCall("add_subscriber")
    /\ StoredBefore # Absent
    /\ StoredBefore.status = "unsubscribed"
    /\ fromisoformat(StoredBefore.subscribed_date) < now
    /\ table[lastCall.email] = StoredBefore

----------------------------------------------------------------------------
(* The delivery-feedback handler, handle_sns_notification *)

NotificationTypes == {"Bounce", "Complaint", "Delivery"}
BounceTypes == {"Permanent", "Transient", "Undetermined"}

\* the recipient lists of a notification (bouncedRecipients,
\* complainedRecipients), as the list of their emailAddress values
RecipientLists == {<<>>, <<EmailOf(1)>>, <<EmailOf(2)>>, <<EmailOf(1), EmailOf(2)>>}

\* the message of one SNS record as json.loads returns it: a Bounce carries
\* bounce.bounceType and bounce.bouncedRecipients, a Complaint carries
\* complaint.complainedRecipients, any other notification carries neither
SnsMessages ==
    [notificationType : {"Bounce"}, bounceType : BounceTypes,
     recipients : RecipientLists]
    \cup [notificationType : {"Complaint"}, bounceType : {None},
          recipients : RecipientLists]
    \cup [notificationType : {"Delivery"}, bounceType : {None},
          recipients : {<<>>}]

\* the records that follow the first one in the events considered
FollowingMessages ==
    {[notificationType |-> "Bounce", bounceType |-> "Permanent",
      recipients |-> <<EmailOf(2)>>],
     [notificationType |-> "Bounce", bounceType |-> "Transient",
      recipients |-> <<EmailOf(2)>>],
     [notificationType |-> "Complaint", bounceType |-> None,
      recipients |-> <<EmailOf(1), EmailOf(2)>>]}

\* event['Records'], as the list of the messages of the records: one record,
\* or two
SnsEvents ==
    {<<first>> : first \in SnsMessages}
    \cup {<<first, second>> : first \in SnsMessages, second \in FollowingMessages}

\* handle_bounce_notification that flags a Transient bounce for unsubscription
handle_bounce_notification_unsubscribes_transient(bounce_data) ==
    [handled |-> TRUE,
     bounce_type |-> bounce_data.bounceType,
     affected_emails |-> bounce_data.recipients,
     action_taken |->
         IF bounce_data.bounceType \in {"Permanent", "Transient"}
         THEN "should_unsubscribe"
         ELSE None]

handle_bounce_notification(bounce_data) ==
    [handled |-> TRUE,
     bounce_type |-> bounce_data.bounceType,
     affected_emails |-> bounce_data.recipients,
     action_taken |->
         IF bounce_data.bounceType = "Permanent" THEN "should_unsubscribe"
         ELSE IF bounce_data.bounceType = "Transient" THEN "retry_later"
         ELSE None]

handle_complaint_notification(complaint_data) ==
    [handled |-> TRUE,
     complaint_type |-> None,
     affected_emails |-> complaint_data.recipients,
     action_taken |-> "should_unsubscribe"]

RECURSIVE unsubscribe_affected(_, _, _, _)
\* for email in result['affected_emails']:
\*     dynamodb_client.update_subscriber_status(email, UNSUBSCRIBED)
\* failing is the address whose update_item requests the table service
\* answers with an error (None: it answers every request)
unsubscribe_affected(tbl, affected_emails, i, failing) ==
    IF i > Len(affected_emails) THEN Returned(tbl, TRUE)
    ELSE LET email == affected_emails[i]
             done == update_subscriber_status(
                         tbl, email, "UNSUBSCRIBED",
                         IF email = failing THEN "update_item" ELSE None)
         IN IF done.raised # None THEN done
            ELSE unsubscribe_affected(done.tbl, affected_emails, i + 1, failing)

\* the body of the loop over event['Records'] for one record
handle_sns_record(tbl, sns_message, failing) ==
    IF sns_message.notificationType = "Bounce"
    THEN LET result == handle_bounce_notification(sns_message)
         IN IF result.action_taken = "should_unsubscribe"
            THEN unsubscribe_affected(tbl, result.affected_emails, 1, failing)
            ELSE Returned(tbl, TRUE)
    ELSE IF sns_message.notificationType = "Complaint"
    THEN LET result == handle_complaint_notification(sns_message)
         IN IF result.action_taken = "should_unsubscribe"
            THEN unsubscribe_affected(tbl, result.affected_emails, 1, failing)
            ELSE Returned(tbl, TRUE)
    ELSE Returned(tbl, TRUE)

RECURSIVE handle_sns_records(_, _, _, _)
handle_sns_records(tbl, records, i, failing) ==
    IF i > Len(records) THEN Returned(tbl, TRUE)
    ELSE LET done == handle_sns_record(tbl, records[i], failing)
         IN IF done.raised # None THEN done
            ELSE handle_sns_records(done.tbl, records, i + 1, failing)

\* the table after the handler, and the statusCode of its response
handle_sns_notification(tbl, event, failing) ==
    LET done == handle_sns_records(tbl, event, 1, failing)
    IN [tbl |-> done.tbl,
        statusCode |-> IF done.raised = None THEN 200 ELSE 500]

\* the address whose update_item requests fail, if any
FailingAddresses == {None, EmailOf(2)}

HandleSnsNotification ==
    \E event \in SnsEvents, failing \in FailingAddresses :
    \E done \in {handle_sns_notification(table, event, failing)} :
        /\ table' = done.tbl
        /\ lastCall' = [op |-> "handle_sns_notification", event |-> event,
                        failing |-> failing, before |-> table,
                        statusCode |-> done.statusCode]
        /\ UNCHANGED <<now, senderVars, contentVars>>

SnsNext ==
    \/ AddSubscriber
    \/ ConfirmSubscriber
    \/ HandleSnsNotification

SnsSpec == Init /\ [][SnsNext]_vars

----------------------------------------------------------------------------
(* Properties of the delivery-feedback handler *)

\* a record of the event that asks for unsubscription: a Permanent bounce
\* or a Complaint
AsksUnsubscribe(sns_message) ==
    \/ /\ sns_message.notificationType = "Bounce"
       /\ sns_message.bounceType = "Permanent"
    \/ sns_message.notificationType = "Complaint"

\* the addresses listed by a record of the last event that asks for
\* unsubscription
ListedForUnsubscribe ==
    {email \in Emails :
        \E i \in 1..Len(lastCall.event) :
            /\ AsksUnsubscribe(lastCall.event[i])
            /\ email \in Range(lastCall.event[i].recipients)}

\* C11: after handle_sns_notification, every address that has a record and
\* is listed by a Permanent bounce or by a Complaint of the event has status
\* unsubscribed (when the table service answered every request, that is the
\* response is 200); the records of all other addresses, among them those
\* listed only by Transient or other bounces or by other notifications, are
\* as they were, and a record that changed differs only in its status,
\* which is unsubscribed.
C11_UnsubscribeOnPermanentOrComplaint ==
    IsCall("handle_sns_notification") =>
        /\ \A email \in Emails \ ListedForUnsubscribe :
              table[email] = lastCall.before[email]
        /\ \A email \in Emails :
              table[email] # lastCall.before[email] =>
                 /\ lastCall.before[email] # Absent
                 /\ table[email] =
                       [lastCall.before[email] EXCEPT !.status = "unsubscribed"]
        /\ lastCall.statusCode = 200 =>
              \A email \in ListedForUnsubscribe :
                 lastCall.before[email] # Absent
                    => table[email].status = "unsubscribed"

\* an event with a Permanent bounce of an active address and a Transient
\* bounce of another address that has a record: the first is unsubscribed,
\* the second is as it was
C11_Witness ==
    /\ IsCall("handle_sns_notification")
    /\ lastCall.statusCode = 200
    /\ \E i, j \in 1..Len(lastCall.event) :
          /\ lastCall.event[i].notificationType = "Bounce"
          /\ lastCall.event[i].bounceType = "Permanent"
          /\ lastCall.event[i].recipients = <<EmailOf(1)>>
          /\ lastCall.event[j].notificationType = "Bounce"
          /\ lastCall.event[j].bounceType = "Transient"
          /\ lastCall.event[j].recipients = <<EmailOf(2)>>
    /\ IsActive(lastCall.before[EmailOf(1)])
    /\ table[EmailOf(1)].status = "unsubscribed"
    /\ lastCall.before[EmailOf(2)] # Absent
    /\ table[EmailOf(2)] = lastCall.before[EmailOf(2)]

----------------------------------------------------------------------------
(* Pure operations are applied once to an argument drawn in the initial    *)
(* state: lastCall starts as the pending call and becomes the finished one *)

\* the services and the sender as they are after construction
StateAfterConstruction ==
    /\ emails_sent_today = 0
    /\ send_errors = <<>>
    /\ ses_accepted = 0
    /\ table = [email \in Emails |-> Absent]
    /\ now = 0
    /\ bucket = EmptyBucket
    /\ today = 0

Pending(op, args) == [op |-> op, pending |-> TRUE, args |-> args, ret |-> Absent]
Finished(op, args, ret) == [op |-> op, pending |-> FALSE, args |-> args, ret |-> ret]

IsPending(op) == lastCall.op = op /\ lastCall.pending
IsFinished(op) == lastCall.op = op /\ ~ lastCall.pending

RECURSIVE SeqsUpTo(_, _)
\* the sequences over S of length at most n
SeqsUpTo(S, n) ==
    IF n = 0 THEN {<<>>}
    ELSE LET shorter == SeqsUpTo(S, n - 1)
         IN shorter \cup {Append(seq, x) : seq \in shorter, x \in S}

----------------------------------------------------------------------------
(* SubscriberManager.filter_valid_subscribers *)

\* the longest subscriber list given to filter_valid_subscribers
MaxListLen == 2

\* Python's  c in text,  for a text given as the sequence of its characters
InText(c, text) == \E i \in 1..Len(text) : text[i] = c

\* the email values of the subscribers filtered: with an '@', without, empty
FilterEmails == {<<"u", "@", "x">>, <<"u", "x">>, <<>>}

\* the unsubscribe_token values of the subscribers filtered: a token, the
\* empty string, None
FilterTokens == {"k1", "", None}

FilterSubscribers ==
    {Subscriber(email, 0, status, None, unsubscribe_token) :
        email \in FilterEmails, status \in SubscriberStatus,
        unsubscribe_token \in FilterTokens}

\* Python's  not value  for an optional string
Falsy(value) == value = None \/ value = ""

RECURSIVE filter_valid_subscribers_loop(_, _, _)
\* the loop without the test of the unsubscribe token
filter_valid_subscribers_loop_keeps_tokenless(valid_subscribers, subscribers, i) ==
    IF i > Len(subscribers) THEN valid_subscribers
    ELSE LET subscriber == subscribers[i]
         IN IF subscriber.status # "ACTIVE"
            THEN filter_valid_subscribers_loop(valid_subscribers, subscribers, i + 1)
            ELSE IF subscriber.email = <<>> \/ ~ InText("@", subscriber.email)
            THEN filter_valid_subscribers_loop(valid_subscribers, subscribers, i + 1)
            ELSE filter_valid_subscribers_loop(Append(valid_subscribers, subscriber),
                                               subscribers, i + 1)

filter_valid_subscribers_loop(valid_subscribers, subscribers, i) ==
    IF i > Len(subscribers) THEN valid_subscribers
    ELSE LET subscriber == subscribers[i]
         IN IF subscriber.status # "ACTIVE"
            THEN filter_valid_subscribers_loop(valid_subscribers, subscribers, i + 1)
            ELSE IF subscriber.email = <<>> \/ ~ InText("@", subscriber.email)
            THEN filter_valid_subscribers_loop(valid_subscribers, subscribers, i + 1)
            ELSE IF Falsy(subscriber.unsubscribe_token)
            THEN filter_valid_subscribers_loop(valid_subscribers, subscribers, i + 1)
            ELSE filter_valid_subscribers_loop(Append(valid_subscribers, subscriber),
                                               subscribers, i + 1)

filter_valid_subscribers(subscribers) ==
    filter_valid_subscribers_loop(<<>>, subscribers, 1)

FilterInit ==
    /\ StateAfterConstruction
    /\ lastCall \in {Pending("filter_valid_subscribers", subscribers) :
                        subscribers \in SeqsUpTo(FilterSubscribers, MaxListLen)}

FilterValidSubscribers ==
    /\ IsPending("filter_valid_subscribers")
    /\ lastCall' = Finished("filter_valid_subscribers", lastCall.args,
                            filter_valid_subscribers(lastCall.args))
    /\ UNCHANGED <<tableVars, senderVars, contentVars>>

FilterSpec == FilterInit /\ [][FilterValidSubscribers]_vars

\* a record that is ready for sending
SendReady(subscriber) ==
    /\ subscriber.status = "ACTIVE"
    /\ \E i \in 1..Len(subscriber.email) : subscriber.email[i] = "@"
    /\ subscriber.unsubscribe_token \notin {None, ""}

\* C12: filter_valid_subscribers returns, in input order, exactly the input
\* records that are active, have an '@' in the email and have a non-empty
\* unsubscribe_token.
C12_FilterKeepsSendReady ==
    IsFinished("filter_valid_subscribers") =>
        lastCall.ret = SelectSeq(lastCall.args, SendReady)

\* a list with a send-ready record and an active record with an empty
\* token, and a list with a pending record that has a token
C12_Witness ==
    /\ IsFinished("filter_valid_subscribers")
    /\ Len(lastCall.args) = 2
    /\ Len(lastCall.ret) = 1
    /\ SendReady(lastCall.args[1])
    /\ lastCall.args[2].status = "ACTIVE"
    /\ lastCall.args[2].unsubscribe_token = ""
    /\ InText("@", lastCall.args[2].email)

\* a pending record with a token and a valid email is left out
C12_WitnessPending ==
    /\ IsFinished("filter_valid_subscribers")
    /\ Len(lastCall.args) = 1
    /\ lastCall.args[1].status = "PENDING_CONFIRMATION"
    /\ lastCall.args[1].unsubscribe_token = "k1"
    /\ InText("@", lastCall.args[1].email)
    /\ lastCall.ret = <<>>

----------------------------------------------------------------------------
(* Week identifiers: get_week_id_for_date and get_week_start_end           *)
(* A datetime is its proleptic Gregorian ordinal (date.toordinal: day 1 is *)
(* Monday, January 1 of year 1) and the seconds since midnight.            *)

\* the years the dates are drawn from
FirstYear == 2018
NumYears == 9
\* the ISO year of a date is its year, the one before or the one after
IsoYears == (FirstYear - 1)..(FirstYear + NumYears)

\* the number of days before January 1 of year
days_before_year(year) ==
    LET y == year - 1
    IN y * 365 + (y \div 4) - (y \div 100) + (y \div 400)

\* the ordinal of datetime(year, 1, 1)
Jan1(year) == days_before_year(year) + 1

datetime(ordinal, second) == [ordinal |-> ordinal, second |-> second]

\* datetime.weekday: Monday is 0, Sunday is 6
weekday(ordinal) == (ordinal + 6) % 7

\* date.year
YearOf(ordinal) ==
    CHOOSE year \in IsoYears : Jan1(year) <= ordinal /\ ordinal < Jan1(year + 1)

\* the ordinal of the Monday of ISO week 1 of year: the week with the
\* year's first Thursday
isoweek1monday(year) ==
    LET firstday == Jan1(year)
        firstweekday == weekday(firstday)
        week1monday == firstday - firstweekday
    IN IF firstweekday > 3 THEN week1monday + 7 ELSE week1monday

\* date.isocalendar: ISO year, ISO week number, ISO weekday
isocalendar(ordinal) ==
    LET year == YearOf(ordinal)
        week == (ordinal - isoweek1monday(year)) \div 7
        day == (ordinal - isoweek1monday(year)) % 7
    IN IF ordinal < isoweek1monday(year)
       THEN <<year - 1, ((ordinal - isoweek1monday(year - 1)) \div 7) + 1, day + 1>>
       ELSE IF week >= 52 /\ ordinal >= isoweek1monday(year + 1)
       THEN <<year + 1, 1, day + 1>>
       ELSE <<year, week + 1, day + 1>>

\* f"{year}-week-{week_num:02d}"
FormatWeekId(year, week_num) ==
    ToString(year) \o "-week-" \o (IF week_num < 10 THEN "0" ELSE "") \o ToString(week_num)

get_week_id_for_date(date) ==
    LET iso == isocalendar(date.ordinal)
    IN FormatWeekId(iso[1], iso[2])

\* week_id.split('-') and int() of the first and third part
ParseWeekId(week_id) ==
    CHOOSE parts \in IsoYears \X (1..53) : FormatWeekId(parts[1], parts[2]) = week_id

\* first_monday as get_week_start_end computes it
first_monday(year) ==
    LET jan_1 == Jan1(year)
        days_to_monday == (7 - weekday(jan_1)) % 7
    IN IF weekday(jan_1) > 3
       THEN jan_1 + days_to_monday + 7
       ELSE jan_1 + days_to_monday

\* (week_start, week_end)
get_week_start_end(week_id) ==
    LET parts == ParseWeekId(week_id)
        year == parts[1]
        week_num == parts[2]
        week_start == first_monday(year) + 7 * (week_num - 1)
    IN <<datetime(week_start, 0), datetime(week_start + 6, 23 * 3600 + 59 * 60 + 59)>>

\* the times of day of the dates drawn
SecondsOfDay == {0, 12 * 3600, 23 * 3600 + 59 * 60 + 59}

Dates ==
    {datetime(ordinal, second) :
        ordinal \in Jan1(FirstYear)..(Jan1(FirstYear + NumYears) - 1),
        second \in SecondsOfDay}

WeekInit ==
    /\ StateAfterConstruction
    /\ lastCall \in {Pending("get_week_start_end", date) : date \in Dates}

\* get_week_start_end(get_week_id_for_date(date))
WeekRoundTrip ==
    /\ IsPending("get_week_start_end")
    /\ \E week_id \in {get_week_id_for_date(lastCall.args)} :
          lastCall' = [op |-> "get_week_start_end", pending |-> FALSE,
                       args |-> lastCall.args, week_id |-> week_id,
                       ret |-> get_week_start_end(week_id)]
    /\ UNCHANGED <<tableVars, senderVars, contentVars>>

WeekSpec == WeekInit /\ [][WeekRoundTrip]_vars

\* a datetime is not later than another
NotLater(a, b) ==
    a.ordinal < b.ordinal \/ (a.ordinal = b.ordinal /\ a.second <= b.second)

\* C13: for any date D, get_week_start_end(get_week_id_for_date(D)) is an
\* interval that contains D and runs from a Monday 00:00:00 to the Sunday
\* six days later 23:59:59.
C13_WeekIntervalContainsDate ==
    IsFinished("get_week_start_end") =>
        /\ NotLater(lastCall.ret[1], lastCall.args)
        /\ NotLater(lastCall.args, lastCall.ret[2])
        /\ weekday(lastCall.ret[1].ordinal) = 0
        /\ lastCall.ret[1].second = 0
        /\ lastCall.ret[2].ordinal = lastCall.ret[1].ordinal + 6
        /\ lastCall.ret[2].second = 23 * 3600 + 59 * 60 + 59

----------------------------------------------------------------------------
(* ContentGatherer: _categorize_articles and deduplicate_articles          *)
(* Text is the sequence of its characters.                                 *)

\* the longest article list given to the gatherer's operations
MaxArticles == 2

\* str.lower, on the letters that occur in the texts below
LowerChar(c) ==
    CASE c = "A" -> "a"
      [] c = "D" -> "d"
      [] c = "E" -> "e"
      [] c = "I" -> "i"
      [] c = "M" -> "m"
      [] c = "N" -> "n"
      [] c = "P" -> "p"
      [] c = "T" -> "t"
      [] OTHER -> c

lower(text) == [i \in 1..Len(text) |-> LowerChar(text[i])]

\* Python's  keyword in text
Contains(keyword, text) ==
    \E i \in 0..(Len(text) - Len(keyword)) :
        SubSeq(text, i + 1, i + Len(keyword)) = keyword

\* Python's  any(keyword in text for keyword in keywords)
AnyKeywordIn(keywords, text) ==
    \E k \in 1..Len(keywords) : Contains(keywords[k], text)

\* the keyword lists the gatherer is constructed with (two of the Alzheimer's
\* and one of the Parkinson's keywords of the Content Agent), as __init__
\* stores them: lower-cased
alzheimers_keywords ==
    <<lower(<<"t", "a", "u", " ", "p", "r", "o", "t", "e", "i", "n">>), lower(<<"d", "e", "m", "e", "n", "t", "i", "a">>)>>
parkinsons_keywords ==
    <<lower(<<"t", "r", "e", "m", "o", "r">>)>>

Article(title, url, description, content, category) ==
    [title |-> title, url |-> url, description |-> description,
     content |-> content, category |-> category]

\* the titles, descriptions and contents of the articles gathered; a content
\* of <<>> stands for None and for the empty string, which  content or ''
\* makes the same
ArticleTitles == {<<"T", "a", "u">>, <<"T", "r", "e", "m", "o", "r">>, <<"D", "i", "e", "t">>}
ArticleDescriptions == {<<"P", "r", "o", "t", "e", "i", "n">>, <<"D", "E", "M", "E", "N", "T", "I", "A">>, <<>>}
ArticleContents == {<<>>, <<"t", "r", "e", "m", "o", "r">>, <<"D", "e", "m", "e", "n", "t", "i", "a">>}

GatheredArticles ==
    {Article(title, "A", description, content, None) :
        title \in ArticleTitles, description \in ArticleDescriptions,
        content \in ArticleContents}

\* f"{article.title} {article.description} {article.content or ''}".lower()
MatchText(article) ==
    lower(article.title \o <<" ">> \o article.description \o <<" ">> \o article.content)

RECURSIVE categorize_articles_loop(_, _, _)
\* the loop with the Parkinson's test first
categorize_articles_loop_prefers_parkinsons(categorized, articles, i) ==
    IF i > Len(articles) THEN categorized
    ELSE LET article == articles[i]
             text == MatchText(article)
             alzheimers_match == AnyKeywordIn(alzheimers_keywords, text)
             parkinsons_match == AnyKeywordIn(parkinsons_keywords, text)
         IN IF parkinsons_match
            THEN categorize_articles_loop(
                     Append(categorized, [article EXCEPT !.category = "parkinsons"]),
                     articles, i + 1)
            ELSE IF alzheimers_match
            THEN categorize_articles_loop(
                     Append(categorized, [article EXCEPT !.category = "alzheimers"]),
                     articles, i + 1)
            ELSE categorize_articles_loop(categorized, articles, i + 1)

categorize_articles_loop(categorized, articles, i) ==
    IF i > Len(articles) THEN categorized
    ELSE LET article == articles[i]
             text == MatchText(article)
             alzheimers_match == AnyKeywordIn(alzheimers_keywords, text)
             parkinsons_match == AnyKeywordIn(parkinsons_keywords, text)
         IN IF alzheimers_match
            THEN categorize_articles_loop(
                     Append(categorized, [article EXCEPT !.category = "alzheimers"]),
                     articles, i + 1)
            ELSE IF parkinsons_match
            THEN categorize_articles_loop(
                     Append(categorized, [article EXCEPT !.category = "parkinsons"]),
                     articles, i + 1)
            ELSE categorize_articles_loop(categorized, articles, i + 1)

categorize_articles(articles) == categorize_articles_loop(<<>>, articles, 1)

CategorizeInit ==
    /\ StateAfterConstruction
    /\ lastCall \in {Pending("categorize_articles", articles) :
                        articles \in SeqsUpTo(GatheredArticles, MaxArticles)}

CategorizeArticles ==
    /\ IsPending("categorize_articles")
    /\ lastCall' = Finished("categorize_articles", lastCall.args,
                            categorize_articles(lastCall.args))
    /\ UNCHANGED <<tableVars, senderVars, contentVars>>

CategorizeSpec == CategorizeInit /\ [][CategorizeArticles]_vars

\* the lower-cased title, description and content of an article, joined by
\* spaces, contain a keyword of the list
Mentions(article, keywords) ==
    \E k \in 1..Len(keywords) :
        Contains(keywords[k],
                 lower(article.title \o <<" ">> \o article.description
                       \o <<" ">> \o article.content))

\* the category the claim gives an article
CategoryOf(article) ==
    IF Mentions(article, alzheimers_keywords) THEN "alzheimers"
    ELSE IF Mentions(article, parkinsons_keywords) THEN "parkinsons"
    ELSE None

\* C14: _categorize_articles returns, in input order, the articles that
\* mention a keyword, each with category alzheimers when it mentions an
\* Alzheimer's keyword (also when it mentions a Parkinson's keyword too) and
\* parkinsons when it mentions only a Parkinson's keyword; articles that
\* mention neither are dropped.
C14_CategorizeByKeyword ==
    IsFinished("categorize_articles") =>
        LET kept == SelectSeq(lastCall.args, LAMBDA a : CategoryOf(a) # None)
        IN /\ Len(lastCall.ret) = Len(kept)
           /\ \A i \in 1..Len(kept) :
                 /\ lastCall.ret[i] = [kept[i] EXCEPT !.category = CategoryOf(kept[i])]
                 /\ lastCall.ret[i].category \in {"alzheimers", "parkinsons"}

\* an article that mentions keywords of both lists comes out as alzheimers,
\* before an article that mentions only a Parkinson's keyword
C14_Witness ==
    /\ IsFinished("categorize_articles")
    /\ Len(lastCall.args) = 2
    /\ Mentions(lastCall.args[1], alzheimers_keywords)
    /\ Mentions(lastCall.args[1], parkinsons_keywords)
    /\ ~ Mentions(lastCall.args[2], alzheimers_keywords)
    /\ Mentions(lastCall.args[2], parkinsons_keywords)
    /\ Len(lastCall.ret) = 2
    /\ lastCall.ret[1].category = "alzheimers"
    /\ lastCall.ret[2].category = "parkinsons"

\* an article that mentions no keyword is dropped
C14_WitnessDropped ==
    /\ IsFinished("categorize_articles")
    /\ Len(lastCall.args) = 1
    /\ CategoryOf(lastCall.args[1]) = None
    /\ lastCall.ret = <<>>

----------------------------------------------------------------------------
(* ContentGatherer.deduplicate_articles *)

\* the longest article list given to deduplicate_articles
MaxDuplicates == 3

ArticleUrls == {"A", "B", "C"}

\* categorized articles: two titles tell apart the articles of one URL
CategorizedArticles ==
    {Article(title, url, <<>>, <<>>, "alzheimers") :
        title \in {<<"T", "a", "u">>, <<"D", "i", "e", "t">>}, url \in ArticleUrls}

RECURSIVE deduplicate_articles_loop(_, _, _, _)
\* the loop that keeps the latest article of a URL instead of the first
deduplicate_articles_loop_keeps_last(seen_urls, deduplicated, articles, i) ==
    IF i > Len(articles) THEN deduplicated
    ELSE LET article == articles[i]
         IN IF article.url \notin seen_urls
            THEN deduplicate_articles_loop(seen_urls \cup {article.url},
                                           Append(deduplicated, article),
                                           articles, i + 1)
            ELSE deduplicate_articles_loop(
                     seen_urls,
                     Append(SelectSeq(deduplicated, LAMBDA a : a.url # article.url),
                            article),
                     articles, i + 1)

deduplicate_articles_loop(seen_urls, deduplicated, articles, i) ==
    IF i > Len(articles) THEN deduplicated
    ELSE LET article == articles[i]
         IN IF article.url \notin seen_urls
            THEN deduplicate_articles_loop(seen_urls \cup {article.url},
                                           Append(deduplicated, article),
                                           articles, i + 1)
            ELSE deduplicate_articles_loop(seen_urls, deduplicated, articles, i + 1)

deduplicate_articles(articles) == deduplicate_articles_loop({}, <<>>, articles, 1)

DeduplicateInit ==
    /\ StateAfterConstruction
    /\ lastCall \in {Pending("deduplicate_articles", articles) :
                        articles \in SeqsUpTo(CategorizedArticles, MaxDuplicates)}

\* deduplicate_articles, applied to the list and then to its own result
DeduplicateArticles ==
    /\ IsPending("deduplicate_articles")
    /\ \E deduplicated \in {deduplicate_articles(lastCall.args)} :
          lastCall' = [op |-> "deduplicate_articles", pending |-> FALSE,
                       args |-> lastCall.args, ret |-> deduplicated,
                       again |-> deduplicate_articles(deduplicated)]
    /\ UNCHANGED <<tableVars, senderVars, contentVars>>

DeduplicateSpec == DeduplicateInit /\ [][DeduplicateArticles]_vars

\* the positions of the list where a URL occurs for the first time
FirstOccurrences(articles) ==
    {i \in 1..Len(articles) : \A j \in 1..(i - 1) : articles[j].url # articles[i].url}

\* the k-th smallest member of a set of positions
KthOf(positions, k) ==
    CHOOSE i \in positions : Cardinality({j \in positions : j <= i}) = k

\* C15: deduplicate_articles returns the first occurrence of every URL of
\* the input, in first-seen order, so that every URL occurs exactly once;
\* applying it to its result gives the same result.
C15_DeduplicateKeepsFirst ==
    IsFinished("deduplicate_articles") =>
        LET first == FirstOccurrences(lastCall.args)
        IN /\ Len(lastCall.ret) = Cardinality(first)
           /\ \A k \in 1..Len(lastCall.ret) :
                 lastCall.ret[k] = lastCall.args[KthOf(first, k)]
           /\ \A k, l \in 1..Len(lastCall.ret) :
                 k # l => lastCall.ret[k].url # lastCall.ret[l].url
           /\ {lastCall.ret[k].url : k \in 1..Len(lastCall.ret)}
                 = {lastCall.args[i].url : i \in 1..Len(lastCall.args)}
           /\ lastCall.again = lastCall.ret

\* URLs [A, B, A], the two articles of A being different ones, give the
\* first article of A and then the article of B
C15_Witness ==
    /\ IsFinished("deduplicate_articles")
    /\ Len(lastCall.args) = 3
    /\ lastCall.args[1].url = "A"
    /\ lastCall.args[2].url = "B"
    /\ lastCall.args[3].url = "A"
    /\ lastCall.args[3] # lastCall.args[1]
    /\ lastCall.ret = <<lastCall.args[1], lastCall.args[2]>>

----------------------------------------------------------------------------
(* BedrockSummarizer.summarize_articles                                    *)
(* An article is known by its url; the outcome of a model invocation is    *)
(* given by failing, the urls of the articles whose invocation raises,     *)
(* and overall_fails, whether the invocation for the overall summary       *)
(* raises.                                                                 *)

MAX_ARTICLES_PER_CATEGORY == 25
MAX_TOKENS_ARTICLE == 200
MAX_TOKENS_OVERALL == 300
\* article_summaries[:10] in _generate_overall_summary
OVERALL_SUMMARY_ARTICLES == 10

\* the longest article list given to summarize_articles
MaxSummarized == 27

\* n articles of a category, with urls 1..n
ArticlesOf(category, n) ==
    [i \in 1..n |-> Article(<<>>, i, <<>>, <<>>, category)]

SummarizedContent(category, overall_summary, article_summaries, total_articles) ==
    [category |-> category, overall_summary |-> overall_summary,
     article_summaries |-> article_summaries, total_articles |-> total_articles]

\* one request to the model: kind "article" with the url of the article the
\* prompt is made of, or kind "overall" (url 0); and its max_tokens
Invocation(kind, url, max_tokens) == [kind |-> kind, url |-> url, max_tokens |-> max_tokens]

\* the summary dictionary _summarize_single_article returns
ArticleSummary(article) ==
    [title |-> article.title, url |-> article.url, summary |-> "summary"]

RECURSIVE summarize_each(_, _, _, _, _)

\* the loop left at the first invocation that raises
summarize_each_stops_at_failure(article_summaries, invocations, articles, i, failing) ==
    IF i > Len(articles)
    THEN [article_summaries |-> article_summaries, invocations |-> invocations]
    ELSE LET article == articles[i]
             invoked == Append(invocations, Invocation("article", article.url, MAX_TOKENS_ARTICLE))
         IN IF article.url \in failing
            THEN [article_summaries |-> article_summaries, invocations |-> invoked]
            ELSE summarize_each(Append(article_summaries, ArticleSummary(article)),
                                invoked, articles, i + 1, failing)

\* the loop over the articles: one invocation for each, a summary appended
\* unless the invocation raised
summarize_each(article_summaries, invocations, articles, i, failing) ==
    IF i > Len(articles)
    THEN [article_summaries |-> article_summaries, invocations |-> invocations]
    ELSE LET article == articles[i]
             invoked == Append(invocations, Invocation("article", article.url, MAX_TOKENS_ARTICLE))
         IN IF article.url \in failing
            THEN summarize_each(article_summaries, invoked, articles, i + 1, failing)
            ELSE summarize_each(Append(article_summaries, ArticleSummary(article)),
                                invoked, articles, i + 1, failing)

\* the overall summary and the invocation made for it, if any
generate_overall_summary(article_summaries, category, overall_fails) ==
    IF article_summaries = <<>>
    THEN [overall_summary |-> "No new developments this week.", invocations |-> <<>>]
    ELSE [overall_summary |->
              IF overall_fails
              THEN "fallback " \o ToString(Len(article_summaries))
              ELSE "overview " \o ToString(
                       Len(SlicePrefix(article_summaries, OVERALL_SUMMARY_ARTICLES))),
          invocations |-> <<Invocation("overall", 0, MAX_TOKENS_OVERALL)>>]

\* summarize_articles without the limit on the number of articles
summarize_articles_unlimited(articles, category, failing, overall_fails) ==
    IF articles = <<>>
    THEN [content |-> SummarizedContent(category, "No new developments this week.",
                                        <<>>, 0),
          invocations |-> <<>>]
    ELSE LET each == summarize_each(<<>>, <<>>, articles, 1, failing)
             overall == generate_overall_summary(each.article_summaries, category,
                                                 overall_fails)
         IN [content |-> SummarizedContent(category, overall.overall_summary,
                                           each.article_summaries,
                                           Len(each.article_summaries)),
             invocations |-> each.invocations \o overall.invocations]

\* the SummarizedContent returned and the model invocations made, in order
summarize_articles(articles, category, failing, overall_fails) ==
    IF articles = <<>>
    THEN [content |-> SummarizedContent(category, "No new developments this week.",
                                        <<>>, 0),
          invocations |-> <<>>]
    ELSE LET limited == IF Len(articles) > MAX_ARTICLES_PER_CATEGORY
                        THEN SlicePrefix(articles, MAX_ARTICLES_PER_CATEGORY)
                        ELSE articles
             each == summarize_each(<<>>, <<>>, limited, 1, failing)
             overall == generate_overall_summary(each.article_summaries, category,
                                                 overall_fails)
         IN [content |-> SummarizedContent(category, overall.overall_summary,
                                           each.article_summaries,
                                           Len(each.article_summaries)),
             invocations |-> each.invocations \o overall.invocations]

Categories == {"alzheimers", "parkinsons"}

\* the sets of articles whose invocation fails
FailingSets == SUBSET {1, MAX_ARTICLES_PER_CATEGORY, MAX_ARTICLES_PER_CATEGORY + 1}

SummarizeInit ==
    /\ StateAfterConstruction
    /\ lastCall \in
          {Pending("summarize_articles",
                   [articles |-> ArticlesOf(category, n), category |-> category,
                    failing |-> failing, overall_fails |-> overall_fails]) :
              category \in Categories, n \in 0..MaxSummarized,
              failing \in FailingSets, overall_fails \in BOOLEAN}

SummarizeArticles ==
    /\ IsPending("summarize_articles")
    /\ lastCall' = Finished("summarize_articles", lastCall.args,
                            summarize_articles(lastCall.args.articles,
                                               lastCall.args.category,
                                               lastCall.args.failing,
                                               lastCall.args.overall_fails))
    /\ UNCHANGED <<tableVars, senderVars, contentVars>>

SummarizeSpec == SummarizeInit /\ [][SummarizeArticles]_vars

\* the invocations made for articles, without the one for the overall summary
ArticleInvocations(invocations) ==
    SelectSeq(invocations, LAMBDA inv : inv.kind = "article")

\* C17: summarize_articles given more than 25 articles invokes the model, in
\* input order, for each of the first 25 articles and for no later article;
\* no later article appears in article_summaries, and total_articles, the
\* length of article_summaries, is at most 25.
C17_SummarizesFirst25 ==
    (IsFinished("summarize_articles") /\ Len(lastCall.args.articles) > 25) =>
        LET made == ArticleInvocations(lastCall.ret.invocations)
            content == lastCall.ret.content
        IN /\ Len(made) = 25
           /\ \A i \in 1..25 : made[i].url = lastCall.args.articles[i].url
           /\ \A k \in 1..Len(content.article_summaries) :
                 \E i \in 1..25 :
                    content.article_summaries[k].url = lastCall.args.articles[i].url
           /\ content.total_articles = Len(content.article_summaries)
           /\ content.total_articles <= 25

\* 27 articles, every invocation answered: 25 summaries and 26 invocations,
\* the last for the overall summary
C17_Witness ==
    /\ IsFinished("summarize_articles")
    /\ Len(lastCall.args.articles) = 27
    /\ lastCall.args.failing = {}
    /\ lastCall.ret.content.total_articles = 25
    /\ Len(lastCall.ret.invocations) = 26

\* C23: summarize_articles invokes the model once for each article it
\* processes, in order, and never again for the same article.  An article
\* whose invocation fails is left out of article_summaries and the articles
\* after it are processed; total_articles is the number of articles whose
\* invocation succeeded.  With no article, or when every invocation fails,
\* the model is not invoked for the overall summary, which is then
\* "No new developments this week."
C23_FailedArticleSkipped ==
    IsFinished("summarize_articles") =>
        LET processed == SubSeq(lastCall.args.articles, 1,
                                Min(Len(lastCall.args.articles), 25))
            succeeded == SelectSeq(processed,
                                   LAMBDA a : a.url \notin lastCall.args.failing)
            made == ArticleInvocations(lastCall.ret.invocations)
            content == lastCall.ret.content
        IN /\ Len(made) = Len(processed)
           /\ \A i \in 1..Len(processed) : made[i].url = processed[i].url
           /\ Len(content.article_summaries) = Len(succeeded)
           /\ \A k \in 1..Len(succeeded) :
                 content.article_summaries[k].url = succeeded[k].url
           /\ content.total_articles = Len(succeeded)
           /\ succeeded = <<>> =>
                 /\ \A i \in 1..Len(lastCall.ret.invocations) :
                        lastCall.ret.invocations[i].kind # "overall"
                 /\ content.overall_summary = "No new developments this week."

\* the first of 26 articles and the 25th fail: 25 invocations for articles,
\* 23 summaries, the 24th article summarized after the failure of the first
C23_Witness ==
    /\ IsFinished("summarize_articles")
    /\ Len(lastCall.args.articles) = 26
    /\ lastCall.args.failing = {1, 25}
    /\ Len(ArticleInvocations(lastCall.ret.invocations)) = 25
    /\ lastCall.ret.content.total_articles = 23
    /\ lastCall.ret.content.article_summaries[23].url = 24

\* the only article fails: one invocation, no overall-summary call
C23_WitnessAllFail ==
    /\ IsFinished("summarize_articles")
    /\ Len(lastCall.args.articles) = 1
    /\ lastCall.args.failing = {1}
    /\ Len(lastCall.ret.invocations) = 1
    /\ lastCall.ret.content.total_articles = 0
    /\ lastCall.ret.content.overall_summary = "No new developments this week."

----------------------------------------------------------------------------
(* The Content Agent: estimate_cost, the cost safeguard, summarization,    *)
(* ContentProcessor.process_and_store and store_in_s3                      *)

\* the number of days the Content Agent is observed, at most one run a day
MaxDays == 3

\* the date of day 0: the Saturday before the Monday of ISO week 1 of 2026,
\* so that days 0 and 1 are of one ISO week and day 2 is of the next
FirstContentDay == isoweek1monday(2026) - 2

\* datetime.now(timezone.utc) on a day
DateOf(day) == datetime(FirstContentDay + day, 0)

\* USD amounts are counted in ten-thousandths of a dollar, the precision
\* estimate_cost rounds to: MAX_COST_THRESHOLD 0.50, the warning level 0.10
MAX_COST_THRESHOLD == 5000
COST_WARNING_LEVEL == 1000

\* round(x / 10000) to the nearest integer, a tie to the even one.  (On a
\* tie Python's round(cost, 4) follows the binary value of the float; the
\* article counts below give no tie.)
RoundToNearest(x, unit) ==
    LET q == x \div unit
        r == x % unit
    IN IF 2 * r > unit \/ (2 * r = unit /\ q % 2 = 1) THEN q + 1 ELSE q

\* estimate_cost(num_articles) with avg_article_length = 500.  Costs are
\* computed in units of 10^-8 USD: a token of input costs 0.25 / 10^6 USD,
\* that is 25 units, a token of output 1.25 / 10^6 USD, 125 units.
estimate_cost(num_articles) ==
    LET input_tokens_per_article == (500 \div 4) + 100
        output_tokens_per_article == 200
        total_input_tokens == input_tokens_per_article * num_articles + 2000
        total_output_tokens == output_tokens_per_article * num_articles + 300
        input_cost == total_input_tokens * 25
        output_cost == total_output_tokens * 125
    IN [input_tokens |-> total_input_tokens,
        output_tokens |-> total_output_tokens,
        total_cost_usd |-> RoundToNearest(input_cost + output_cost, 10000)]

\* ContentProcessor.generate_week_id
generate_week_id(date) ==
    LET iso == isocalendar(date.ordinal)
    IN FormatWeekId(iso[1], iso[2])

\* generate_weekly_summary at the time date, after seconds of processing
generate_weekly_summary(alzheimers_summary, parkinsons_summary, date, seconds) ==
    [week_id |-> generate_week_id(date),
     generated_date |-> date,
     alzheimers |-> [summary |-> alzheimers_summary.overall_summary,
                     articles |-> alzheimers_summary.article_summaries],
     parkinsons |-> [summary |-> parkinsons_summary.overall_summary,
                     articles |-> parkinsons_summary.article_summaries],
     total_articles_processed |->
         alzheimers_summary.total_articles + parkinsons_summary.total_articles,
     processing_time_seconds |-> seconds]

\* json.dumps(weekly_summary, indent=2)
json_dumps(weekly_summary) == [format |-> "json", content |-> weekly_summary]

\* the website page: the week id, the day of generated_date, the two
\* summaries and the two article lists
generate_html_content(weekly_summary) ==
    [format |-> "html",
     content |-> [week_id |-> weekly_summary.week_id,
                  week_date |-> weekly_summary.generated_date.ordinal,
                  alzheimers |-> weekly_summary.alzheimers,
                  parkinsons |-> weekly_summary.parkinsons]]

json_key(week_id) == "data/archive/" \o week_id \o ".json"
html_key(week_id) == "website/archive/" \o week_id \o ".html"
current_json_key == "data/current-week.json"
current_html_key == "website/index.html"

\* the object stored under a key, Absent when there is none
Stored(bkt, key) == IF key \in DOMAIN bkt THEN bkt[key] ELSE Absent

\* s3_client.put_object: the object is stored, replacing the one there is
put_object(bkt, key, body) ==
    [k \in DOMAIN bkt \cup {key} |-> IF k = key THEN body ELSE bkt[k]]

RECURSIVE put_objects(_, _, _, _, _)
\* the put_object calls of store_in_s3 from the i-th on; the failing_put-th
\* call raises (0: none does).  attempted lists the keys of the calls made.
put_objects(bkt, requests, i, failing_put, attempted) ==
    IF i > Len(requests)
    THEN [bucket |-> bkt, raised |-> None, attempted |-> attempted]
    ELSE IF i = failing_put
    THEN [bucket |-> bkt, raised |-> "S3Error",
          attempted |-> Append(attempted, requests[i].Key)]
    ELSE put_objects(put_object(bkt, requests[i].Key, requests[i].Body),
                     requests, i + 1, failing_put,
                     Append(attempted, requests[i].Key))

\* store_in_s3 that updates the current copies before it writes the archive
store_in_s3_current_first(bkt, weekly_summary, html_content, failing_put) ==
    LET week_id == weekly_summary.week_id
    IN put_objects(bkt,
                   <<[Key |-> current_json_key, Body |-> json_dumps(weekly_summary)],
                     [Key |-> current_html_key, Body |-> html_content],
                     [Key |-> json_key(week_id), Body |-> json_dumps(weekly_summary)],
                     [Key |-> html_key(week_id), Body |-> html_content]>>,
                   1, failing_put, <<>>)

store_in_s3(bkt, weekly_summary, html_content, failing_put) ==
    LET week_id == weekly_summary.week_id
    IN put_objects(bkt,
                   <<[Key |-> json_key(week_id), Body |-> json_dumps(weekly_summary)],
                     [Key |-> html_key(week_id), Body |-> html_content],
                     [Key |-> current_json_key, Body |-> json_dumps(weekly_summary)],
                     [Key |-> current_html_key, Body |-> html_content]>>,
                   1, failing_put, <<>>)

process_and_store(bkt, alzheimers_summary, parkinsons_summary, date, seconds, failing_put) ==
    LET weekly_summary == generate_weekly_summary(alzheimers_summary,
                                                  parkinsons_summary, date, seconds)
        html_content == generate_html_content(weekly_summary)
        stored == store_in_s3(bkt, weekly_summary, html_content, failing_put)
    IN [bucket |-> stored.bucket, raised |-> stored.raised,
        attempted |-> stored.attempted, weekly_summary |-> weekly_summary,
        html_content |-> html_content]

\* the outcome of a Content Agent run: the bucket after it, the statusCode
\* of the response, and the calls made to the summarizer, to the model and
\* to the storage service (the keys of the put_object calls and the two
\* bodies they carry)
ContentRun(bkt, statusCode, cost_estimate, summarized, invocations, stored) ==
    [bucket |-> bkt, statusCode |-> statusCode,
     estimated_cost_usd |-> cost_estimate.total_cost_usd,
     summarized |-> summarized, invocations |-> invocations, stored |-> stored]

\* that no call of process_and_store was made
NotStored ==
    [attempted |-> <<>>, processed |-> FALSE, json_body |-> Absent, html_body |-> Absent]

\* the handler without the hard cost limit
content_agent_handler_without_limit(bkt, articles, date, processing_time, failing, failing_put) ==
    LET alzheimers_articles == SelectSeq(articles, LAMBDA a : a.category = "alzheimers")
        parkinsons_articles == SelectSeq(articles, LAMBDA a : a.category = "parkinsons")
        total_articles == Len(alzheimers_articles) + Len(parkinsons_articles)
        cost_estimate == estimate_cost(total_articles)
        alzheimers_summary ==
            summarize_articles(alzheimers_articles, "alzheimers", failing, FALSE)
        parkinsons_summary ==
            summarize_articles(parkinsons_articles, "parkinsons", failing, FALSE)
        stored == process_and_store(bkt, alzheimers_summary.content,
                                    parkinsons_summary.content, date,
                                    processing_time, failing_put)
    IN ContentRun(stored.bucket,
                  IF stored.raised = None THEN 200 ELSE 500,
                  cost_estimate, <<"alzheimers", "parkinsons">>,
                  alzheimers_summary.invocations \o parkinsons_summary.invocations,
                  [attempted |-> stored.attempted, processed |-> TRUE,
                   json_body |-> json_dumps(stored.weekly_summary),
                   html_body |-> stored.html_content])

\* lambda_handler of the Content Agent, from the deduplicated articles on
content_agent_handler(bkt, articles, date, processing_time, failing, failing_put) ==
    LET alzheimers_articles == SelectSeq(articles, LAMBDA a : a.category = "alzheimers")
        parkinsons_articles == SelectSeq(articles, LAMBDA a : a.category = "parkinsons")
        total_articles == Len(alzheimers_articles) + Len(parkinsons_articles)
        cost_estimate == estimate_cost(total_articles)
        alzheimers_summary ==
            summarize_articles(alzheimers_articles, "alzheimers", failing, FALSE)
        parkinsons_summary ==
            summarize_articles(parkinsons_articles, "parkinsons", failing, FALSE)
        stored == process_and_store(bkt, alzheimers_summary.content,
                                    parkinsons_summary.content, date,
                                    processing_time, failing_put)
    IN IF cost_estimate.total_cost_usd > MAX_COST_THRESHOLD
       THEN ContentRun(bkt, 400, cost_estimate, <<>>, <<>>, NotStored)
       ELSE ContentRun(stored.bucket,
                       IF stored.raised = None THEN 200 ELSE 500,
                       cost_estimate, <<"alzheimers", "parkinsons">>,
                       alzheimers_summary.invocations \o parkinsons_summary.invocations,
                       [attempted |-> stored.attempted, processed |-> TRUE,
                   json_body |-> json_dumps(stored.weekly_summary),
                   html_body |-> stored.html_content])

\* the numbers of Alzheimer's and of Parkinson's articles gathered: a cost
\* estimate below the warning level, above it, the largest within the limit
\* (1629 articles) and the smallest above it (1630 articles)
GatheredCounts == {<<1, 0>>, <<26, 300>>, <<26, 1603>>, <<26, 1604>>}

\* the articles after deduplicate_articles: distinct urls, the Alzheimer's
\* articles first
GatheredList(counts) ==
    [i \in 1..(counts[1] + counts[2]) |->
        Article(<<>>, i, <<>>, <<>>,
                IF i <= counts[1] THEN "alzheimers" ELSE "parkinsons")]

\* the articles whose model invocation fails in a run
RunFailures == {{}}

\* the whole seconds a run takes from its start to the call of
\* process_and_store (round(processing_time_seconds, 2) leaves them as they are)
ProcessingTimes == {3}

ContentAgentRun ==
    /\ today < MaxDays
    /\ \E counts \in GatheredCounts, failing \in RunFailures, failing_put \in 0..4,
          processing_time \in ProcessingTimes :
       \E done \in {content_agent_handler(bucket, GatheredList(counts), DateOf(today),
                                          processing_time, failing, failing_put)} :
        /\ bucket' = done.bucket
        /\ lastCall' = [op |-> "content_agent", counts |-> counts,
                        failing_put |-> failing_put, before |-> bucket,
                        week_id |-> generate_week_id(DateOf(today)),
                        statusCode |-> done.statusCode,
                        estimated_cost_usd |-> done.estimated_cost_usd,
                        summarized |-> done.summarized,
                        invocations |-> Len(done.invocations),
                        stored |-> done.stored]
        /\ today' = today + 1
        /\ UNCHANGED <<tableVars, senderVars>>

\* a day passes without a run
NextDay ==
    /\ today < MaxDays
    /\ today' = today + 1
    /\ UNCHANGED <<bucket, lastCall, tableVars, senderVars>>

ContentNext == ContentAgentRun \/ NextDay

ContentSpec == Init /\ [][ContentNext]_vars

\* ---- claims about the Content Agent ----

\* C16: a run whose estimated total cost exceeds 0.50 USD answers 400 and
\* calls neither summarize_articles nor process_and_store: no model
\* invocation is made and the bucket is as before the run.  A run whose
\* estimate is at most 0.50 USD, above the warning level of 0.10 USD or not,
\* goes on to summarize both categories.
C16_CostLimitAbortsRun ==
    lastCall.op = "content_agent" =>
        IF lastCall.estimated_cost_usd > 5000
        THEN /\ lastCall.statusCode = 400
             /\ lastCall.summarized = <<>>
             /\ lastCall.invocations = 0
             /\ ~ lastCall.stored.processed
             /\ lastCall.stored.attempted = <<>>
             /\ bucket = lastCall.before
        ELSE /\ lastCall.summarized = <<"alzheimers", "parkinsons">>
             /\ lastCall.invocations > 0
             /\ lastCall.statusCode # 400

\* a run of 1630 articles, estimated at 0.5001 USD, was refused
C16_Witness ==
    /\ lastCall.op = "content_agent"
    /\ lastCall.counts = <<26, 1604>>
    /\ lastCall.estimated_cost_usd = 5001
    /\ lastCall.statusCode = 400

\* a run of 1629 articles, estimated at 0.4998 USD, above the warning level,
\* summarized and stored
C16_WitnessAboveWarning ==
    /\ lastCall.op = "content_agent"
    /\ lastCall.counts = <<26, 1603>>
    /\ lastCall.estimated_cost_usd = 4998
    /\ lastCall.estimated_cost_usd > COST_WARNING_LEVEL
    /\ lastCall.statusCode = 200
    /\ lastCall.summarized = <<"alzheimers", "parkinsons">>

\* the keys of the archive copies of the weeks of the days observed
ArchiveKeys ==
    UNION {{json_key(generate_week_id(DateOf(day))),
            html_key(generate_week_id(DateOf(day)))} : day \in 0..(MaxDays - 1)}

\* C18: an archive object, once stored under data/archive/{week_id}.json or
\* website/archive/{week_id}.html, is never overwritten by a later run, a
\* second run in the same ISO week included.
C18_ArchiveNeverOverwritten ==
    [][\A key \in DOMAIN bucket \cap ArchiveKeys : bucket'[key] = bucket[key]]_vars

\* the four keys store_in_s3 writes for a week, in the order of the writes
StorageKeys(week_id) ==
    <<json_key(week_id), html_key(week_id), current_json_key, current_html_key>>

\* the body a run writes with its i-th put_object call
StorageBody(run, i) ==
    IF i \in {1, 3} THEN run.stored.json_body ELSE run.stored.html_body

\* C20: store_in_s3 writes the archive JSON, the archive HTML, the current
\* JSON and the current HTML in this order.  When the k-th write fails the
\* run answers 500, the writes after the k-th are not attempted and leave
\* their objects as they were, and the writes before the k-th are stored.
\* Hence a current copy is stored only when both archive copies of its week
\* are.
C20_WritesInFixedOrder ==
    /\ (lastCall.op = "content_agent" /\ lastCall.stored.processed) =>
        LET keys == StorageKeys(lastCall.week_id)
            k == lastCall.failing_put
            written == IF k = 0 THEN 4 ELSE k - 1
        IN /\ lastCall.stored.attempted = SubSeq(keys, 1, IF k = 0 THEN 4 ELSE k)
           /\ lastCall.statusCode = (IF k = 0 THEN 200 ELSE 500)
           /\ \A i \in 1..4 :
                Stored(bucket, keys[i]) =
                    IF i <= written THEN StorageBody(lastCall, i)
                    ELSE Stored(lastCall.before, keys[i])
    /\ \A key \in {current_json_key, current_html_key} \cap DOMAIN bucket :
           /\ json_key(bucket[key].content.week_id) \in DOMAIN bucket
           /\ html_key(bucket[key].content.week_id) \in DOMAIN bucket

\* the third write of a run failed: both archive copies are stored, the
\* current copies are not, and the run answered 500
C20_Witness ==
    /\ lastCall.op = "content_agent"
    /\ lastCall.failing_put = 3
    /\ lastCall.statusCode = 500
    /\ lastCall.stored.attempted = SubSeq(StorageKeys(lastCall.week_id), 1, 3)
    /\ Stored(bucket, json_key(lastCall.week_id)) = lastCall.stored.json_body
    /\ Stored(bucket, html_key(lastCall.week_id)) = lastCall.stored.html_body
    /\ Stored(bucket, current_json_key) = Absent

----------------------------------------------------------------------------
(* Email Agent: lambda_handler *)

\* the characters of the i-th address
EmailChars(i) ==
    <<"u", ToString(i), "@", "e", "x", "a", "m", "p", "l", "e", ".", "o", "r", "g">>

\* an address of the table as the text filter_valid_subscribers looks into,
\* and back
CharsOf(email) == EmailChars(CHOOSE i \in 1..2 : EmailOf(i) = email)
TextOf(chars) == CHOOSE email \in Emails : CharsOf(email) = chars

\* DynamoDBClient.get_active_subscribers: the items of the scan whose status
\* is 'active', here in the order of the addresses
get_active_subscribers(tbl) ==
    LET scanned == [i \in 1..2 |-> tbl[EmailOf(i)]]
        Items == SelectSeq(scanned, LAMBDA item : item # Absent /\ item.status = "active")
    IN [i \in 1..Len(Items) |-> from_dynamodb_item(Items[i])]

\* SubscriberManager.get_subscribers_for_sending
get_subscribers_for_sending(tbl, batch_size) ==
    LET found == get_active_subscribers(tbl)
        subscribers == [i \in 1..Len(found) |->
                           [found[i] EXCEPT !.email = CharsOf(found[i].email)]]
        valid_subscribers == filter_valid_subscribers(subscribers)
    IN IF subscribers = <<>> THEN <<>>
       ELSE IF valid_subscribers = <<>> THEN <<>>
       ELSE batch_subscribers([i \in 1..Len(valid_subscribers) |->
                                  TextOf(valid_subscribers[i].email)],
                              batch_size)

\* S3Client.download_json: the parsed object, None when there is no such key
download_json(bkt, key) ==
    IF Stored(bkt, key) = Absent THEN Absent ELSE Stored(bkt, key).content

\* the outcome of an Email Agent run: the sender after it, the statusCode and
\* the content_key of the response, whether the table was scanned, and the
\* number of messages handed to send_single_email
EmailRun(st, statusCode, content_key, scanned, send_results) ==
    [st |-> st, statusCode |-> statusCode, content_key |-> content_key,
     scanned |-> scanned, send_results |-> send_results]

\* the sender EmailSender.__init__ builds
NewSender(accepted) ==
    [emails_sent_today |-> 0, send_errors |-> <<>>, ses_accepted |-> accepted,
     trace |-> <<>>]

RECURSIVE SendAttempts(_)
\* the messages handed to send_single_email in the batches of a result
SendAttempts(batch_results) ==
    IF batch_results = <<>> THEN 0
    ELSE Len(Head(batch_results).result.results) + SendAttempts(Tail(batch_results))

\* the handler scanning the table before it looks for the content
email_agent_handler_scans_first(bkt, tbl, accepted, event, fault, delivers) ==
    LET st == NewSender(accepted)
        week_id == event.week_id
        content_key == IF ~ Falsy(week_id)
                       THEN "data/archive/" \o week_id \o ".json"
                       ELSE "data/current-week.json"
        content_data == download_json(bkt, content_key)
        subscriber_batches == get_subscribers_for_sending(tbl, 50)
        sent == send_to_all_batches(st, subscriber_batches, delivers)
    IN IF fault = "scan"
       THEN EmailRun(st, 500, None, TRUE, Absent)
       ELSE IF fault = "get_object"
       THEN EmailRun(st, 500, None, TRUE, Absent)
       ELSE IF content_data = Absent
       THEN EmailRun(st, 404, content_key, TRUE, Absent)
       ELSE IF subscriber_batches = <<>>
       THEN EmailRun(st, 200, None, TRUE, Absent)
       ELSE EmailRun(sent.st, 200, None, TRUE, sent.result)

\* lambda_handler of the Email Agent.  fault names the request that fails
\* with a service error on every attempt (None: none does).
email_agent_handler(bkt, tbl, accepted, event, fault, delivers) ==
    LET st == NewSender(accepted)
        week_id == event.week_id
        content_key == IF ~ Falsy(week_id)
                       THEN "data/archive/" \o week_id \o ".json"
                       ELSE "data/current-week.json"
        content_data == download_json(bkt, content_key)
        subscriber_batches == get_subscribers_for_sending(tbl, 50)
        sent == send_to_all_batches(st, subscriber_batches, delivers)
    IN IF fault = "get_object"
       THEN EmailRun(st, 500, None, FALSE, Absent)
       ELSE IF content_data = Absent
       THEN EmailRun(st, 404, content_key, FALSE, Absent)
       ELSE IF fault = "scan"
       THEN EmailRun(st, 500, None, TRUE, Absent)
       ELSE IF subscriber_batches = <<>>
       THEN EmailRun(st, 200, None, TRUE, Absent)
       ELSE EmailRun(sent.st, 200, None, TRUE, sent.result)

\* the week_id of the event: none, empty, the week of a stored summary, a
\* week without one
EventWeekIds ==
    {None, "", generate_week_id(DateOf(0)), generate_week_id(DateOf(2))}

\* the buckets an Email Agent run finds: no object, the objects of a run of
\* the Content Agent on day 0, the objects of such a run whose third write
\* failed (the archive copies without the current ones)
ContentBuckets ==
    {EmptyBucket} \cup
    {content_agent_handler(EmptyBucket, GatheredList(<<1, 0>>), DateOf(0), 3,
                           {}, failing_put).bucket : failing_put \in {0, 3}}

\* the items add_subscriber, confirm_subscriber and update_subscriber_status
\* leave for an address
ItemsOf(email) ==
    {Absent} \cup
    {to_dynamodb_item(Subscriber(email, 0, status, "c1", "k1")) :
        status \in SubscriberStatus}

\* the subscriber tables an Email Agent run finds
SubscriberTables == {tbl \in [Emails -> UNION {ItemsOf(email) : email \in Emails}] :
                        \A email \in Emails : tbl[email] \in ItemsOf(email)}

EmailInit ==
    /\ emails_sent_today = 0
    /\ send_errors = <<>>
    /\ ses_accepted = 0
    /\ now = 0
    /\ today = 0
    /\ bucket \in ContentBuckets
    /\ table \in SubscriberTables
    /\ lastCall \in {Pending("email_agent", [week_id |-> week_id, fault |-> fault]) :
                        week_id \in EventWeekIds,
                        fault \in {None, "get_object", "scan"}}

EmailAgentRun ==
    /\ IsPending("email_agent")
    /\ \E delivers \in [Emails -> BOOLEAN] :
       \E done \in {email_agent_handler(bucket, table, ses_accepted,
                                        [week_id |-> lastCall.args.week_id],
                                        lastCall.args.fault, delivers)} :
           /\ emails_sent_today' = done.st.emails_sent_today
           /\ send_errors' = done.st.send_errors
           /\ ses_accepted' = done.st.ses_accepted
           /\ lastCall' = Finished("email_agent", lastCall.args,
                                   [statusCode |-> done.statusCode,
                                    content_key |-> done.content_key,
                                    scanned |-> done.scanned,
                                    send_attempts |->
                                        IF done.send_results = Absent THEN 0
                                        ELSE SendAttempts(done.send_results.batch_results)])
           /\ UNCHANGED <<tableVars, contentVars>>

EmailSpec == EmailInit /\ [][EmailAgentRun]_vars

\* the key the handler looks the content up under
AttemptedKey(week_id) ==
    IF week_id \in {None, ""} THEN "data/current-week.json"
    ELSE "data/archive/" \o week_id \o ".json"

\* an item of the table that is ready for sending
SendReadyItems ==
    {email \in Emails : /\ table[email] # Absent
                        /\ table[email].status = "active"
                        /\ table[email].unsubscribe_token \notin {None, ""}}

\* C19: the Email Agent sends no email unless the weekly content was found
\* and a send-ready subscriber exists.  When the content object is absent
\* the response is 404 with the key that was looked up, the subscriber table
\* was not scanned and nothing was handed to the email service; when the
\* content was found and no active valid subscriber exists the response is
\* 200 and nothing was handed to the email service.
C19_NoContentNoSend ==
    IsFinished("email_agent") =>
        LET key == AttemptedKey(lastCall.args.week_id)
            ret == lastCall.ret
        IN /\ (key \notin DOMAIN bucket /\ lastCall.args.fault # "get_object") =>
                  /\ ret.statusCode = 404
                  /\ ret.content_key = key
                  /\ ~ ret.scanned
                  /\ ret.send_attempts = 0
                  /\ ses_accepted = 0
           /\ (key \in DOMAIN bucket /\ lastCall.args.fault = None
                   /\ SendReadyItems = {}) =>
                  /\ ret.statusCode = 200
                  /\ ret.send_attempts = 0
                  /\ ses_accepted = 0
           /\ (ret.send_attempts > 0 \/ ses_accepted > 0) =>
                  /\ key \in DOMAIN bucket
                  /\ SendReadyItems # {}

\* the archive of a week without a summary was asked for while an active
\* subscriber exists: 404 with the archive key, nothing scanned or sent
C19_Witness ==
    /\ IsFinished("email_agent")
    /\ lastCall.args.week_id = generate_week_id(DateOf(2))
    /\ current_json_key \in DOMAIN bucket
    /\ SendReadyItems # {}
    /\ lastCall.ret.statusCode = 404
    /\ lastCall.ret.content_key = json_key(generate_week_id(DateOf(2)))
    /\ ~ lastCall.ret.scanned

\* the content was found and the table holds no active subscriber
C19_WitnessNoSubscriber ==
    /\ IsFinished("email_agent")
    /\ AttemptedKey(lastCall.args.week_id) \in DOMAIN bucket
    /\ \E email \in Emails : table[email] # Absent
    /\ SendReadyItems = {}
    /\ lastCall.ret.statusCode = 200
    /\ lastCall.ret.scanned
    /\ lastCall.ret.send_attempts = 0

\* the content was found and mail was handed to the email service
C19_WitnessSent ==
    /\ IsFinished("email_agent")
    /\ lastCall.ret.statusCode = 200
    /\ lastCall.ret.send_attempts = 2
    /\ ses_accepted = 1

----------------------------------------------------------------------------
(* exponential_backoff_retry *)

\* RetryConfig; the delays are in hundredths of a second
MAX_RETRIES == 3
BASE_DELAY == 100
MAX_DELAY == 6000
BACKOFF_MULTIPLIER == 2

RECURSIVE Pow(_, _)
Pow(b, n) == IF n = 0 THEN 1 ELSE b * Pow(b, n - 1)

\* what a call of the wrapped function does: it returns, or raises a
\* ClientError, a BotoCoreError or an exception of another class
OutcomeKinds == {"return", "ClientError", "BotoCoreError", "ValueError"}

\* except (ClientError, BotoCoreError)
Caught(outcome) == outcome.kind \in {"ClientError", "BotoCoreError"}

\* the outcome of the call made at an attempt: the value or the exception
\* carries the number of the call it comes from
OutcomeOf(kinds, call) == [kind |-> kinds[call], of_call |-> call]

\* random.uniform(0, delay * 0.1) as a part of the delay, in percent
JitterPercents == {0, 5, 10}

\* the wrapper's result: the value returned or the exception raised, the
\* number of calls of the wrapped function, and the sleeps in their order
RetryResult(raised, ret, calls, sleeps) ==
    [raised |-> raised, ret |-> ret, calls |-> calls, sleeps |-> sleeps]

RECURSIVE retry_loop(_, _, _, _, _)

\* the wrapper without the break at the last attempt: it sleeps after every
\* failure
retry_loop_sleeps_after_last(kinds, jitter, attempt, last_exception, sleeps) ==
    IF attempt >= MAX_RETRIES
    THEN RetryResult(last_exception, Absent, attempt, sleeps)
    ELSE LET outcome == OutcomeOf(kinds, attempt + 1)
             delay == Min(BASE_DELAY * Pow(BACKOFF_MULTIPLIER, attempt), MAX_DELAY)
             slept == delay + (delay * jitter[attempt]) \div 100
         IN IF outcome.kind = "return"
            THEN RetryResult(Absent, outcome, attempt + 1, sleeps)
            ELSE IF ~ Caught(outcome)
            THEN RetryResult(outcome, Absent, attempt + 1, sleeps)
            ELSE retry_loop(kinds, jitter, attempt + 1, outcome,
                            Append(sleeps, slept))

\* the for loop of wrapper from the attempt given on
retry_loop(kinds, jitter, attempt, last_exception, sleeps) ==
    IF attempt >= MAX_RETRIES
    THEN RetryResult(last_exception, Absent, attempt, sleeps)
    ELSE LET outcome == OutcomeOf(kinds, attempt + 1)
             delay == Min(BASE_DELAY * Pow(BACKOFF_MULTIPLIER, attempt), MAX_DELAY)
             slept == delay + (delay * jitter[attempt]) \div 100
         IN IF outcome.kind = "return"
            THEN RetryResult(Absent, outcome, attempt + 1, sleeps)
            ELSE IF ~ Caught(outcome)
            THEN RetryResult(outcome, Absent, attempt + 1, sleeps)
            ELSE IF attempt = MAX_RETRIES - 1
            THEN RetryResult(outcome, Absent, attempt + 1, sleeps)
            ELSE retry_loop(kinds, jitter, attempt + 1, outcome,
                            Append(sleeps, slept))

exponential_backoff_retry(kinds, jitter) == retry_loop(kinds, jitter, 0, Absent, <<>>)

RetryInit ==
    /\ StateAfterConstruction
    /\ lastCall \in {Pending("exponential_backoff_retry", kinds) :
                        kinds \in [1..MAX_RETRIES -> OutcomeKinds]}

ExponentialBackoffRetry ==
    /\ IsPending("exponential_backoff_retry")
    /\ \E jitter \in [0..(MAX_RETRIES - 1) -> JitterPercents] :
           lastCall' = Finished("exponential_backoff_retry", lastCall.args,
                                exponential_backoff_retry(lastCall.args, jitter))
    /\ UNCHANGED <<tableVars, senderVars, contentVars>>

RetrySpec == RetryInit /\ [][ExponentialBackoffRetry]_vars

\* the attempt that ends the retries: the first whose call returns or raises
\* an exception that is no client or service error, the third when there is
\* none
LastAttempt(kinds) ==
    IF \E call \in 1..3 : kinds[call] \notin {"ClientError", "BotoCoreError"}
    THEN CHOOSE call \in 1..3 :
            /\ kinds[call] \notin {"ClientError", "BotoCoreError"}
            /\ \A earlier \in 1..(call - 1) :
                   kinds[earlier] \in {"ClientError", "BotoCoreError"}
    ELSE 3

\* C21: exponential_backoff_retry calls the wrapped function at most 3
\* times and returns the value of the first call that succeeds.  After the
\* failed attempt n (n = 0, 1) with a client or service error it sleeps
\* min(1.0 * 2^n, 60.0) seconds and a jitter of at most a tenth of that; after
\* the third failure it does not sleep and raises the error of that attempt;
\* an exception of another class propagates at once.
C21_RetryAtMostThrice ==
    IsFinished("exponential_backoff_retry") =>
        LET kinds == lastCall.args
            ret == lastCall.ret
            last == LastAttempt(kinds)
        IN /\ ret.calls = last
           /\ ret.calls <= 3
           /\ IF kinds[last] = "return"
              THEN ret.raised = Absent /\ ret.ret = [kind |-> "return", of_call |-> last]
              ELSE ret.ret = Absent /\ ret.raised = [kind |-> kinds[last], of_call |-> last]
           /\ Len(ret.sleeps) = last - 1
           /\ \A n \in 0..(last - 2) :
                 LET seconds == IF n = 0 THEN 100 ELSE 200
                 IN /\ ret.sleeps[n + 1] >= seconds
                    /\ ret.sleeps[n + 1] <= seconds + seconds \div 10

\* three service errors: three calls, sleeps of 1.05 and 2.2 seconds, the
\* third error raised
C21_Witness ==
    /\ IsFinished("exponential_backoff_retry")
    /\ lastCall.args = <<"ClientError", "BotoCoreError", "ClientError">>
    /\ lastCall.ret.calls = 3
    /\ lastCall.ret.sleeps = <<105, 220>>
    /\ lastCall.ret.raised = [kind |-> "ClientError", of_call |-> 3]

\* the second call succeeds after a service error
C21_WitnessSuccess ==
    /\ IsFinished("exponential_backoff_retry")
    /\ lastCall.args[1] = "BotoCoreError"
    /\ lastCall.args[2] = "return"
    /\ lastCall.ret.calls = 2
    /\ Len(lastCall.ret.sleeps) = 1
    /\ lastCall.ret.ret = [kind |-> "return", of_call |-> 2]

\* an exception of another class at the first call: no retry, no sleep
C21_WitnessOtherError ==
    /\ IsFinished("exponential_backoff_retry")
    /\ lastCall.args[1] = "ValueError"
    /\ lastCall.ret.calls = 1
    /\ lastCall.ret.sleeps = <<>>
    /\ lastCall.ret.raised = [kind |-> "ValueError", of_call |-> 1]

----------------------------------------------------------------------------
(* batch_subscribers on its own *)

\* the longest list that is split, and the largest batch_size but the default
MaxBatched == 9

\* the default batch_size
DEFAULT_BATCH_SIZE == 50

BatchInit ==
    /\ StateAfterConstruction
    /\ lastCall \in {Pending("batch_subscribers",
                             [subscribers |-> [i \in 1..n |-> EmailOf(i)],
                              batch_size |-> batch_size]) :
                        n \in 0..MaxBatched,
                        batch_size \in 1..MaxBatched \cup {DEFAULT_BATCH_SIZE}}

BatchSubscribers ==
    /\ IsPending("batch_subscribers")
    /\ lastCall' = Finished("batch_subscribers", lastCall.args,
                            batch_subscribers(lastCall.args.subscribers,
                                              lastCall.args.batch_size))
    /\ UNCHANGED <<tableVars, senderVars, contentVars>>

BatchSpec == BatchInit /\ [][BatchSubscribers]_vars

\* C22: the batches batch_subscribers(list, size) returns for size >= 1,
\* put one after the other, are the input list; no batch is empty, every
\* batch but the last has size elements and the last at most size; an empty
\* list gives no batch.
C22_BatchesPartitionList ==
    IsFinished("batch_subscribers") =>
        LET subscribers == lastCall.args.subscribers
            size == lastCall.args.batch_size
            batches == lastCall.ret
        IN /\ Flatten(batches) = subscribers
           /\ \A b \in 1..Len(batches) :
                 /\ Len(batches[b]) >= 1
                 /\ Len(batches[b]) <= size
                 /\ b < Len(batches) => Len(batches[b]) = size
           /\ subscribers = <<>> => batches = <<>>

\* seven subscribers in batches of three: two full batches and a last of one
C22_Witness ==
    /\ IsFinished("batch_subscribers")
    /\ Len(lastCall.args.subscribers) = 7
    /\ lastCall.args.batch_size = 3
    /\ Len(lastCall.ret) = 3
    /\ Len(lastCall.ret[3]) = 1

----------------------------------------------------------------------------
(* One send_to_all_batches run on a fresh EmailSender *)

\* the longest subscriber list of the runs with small batches
MaxRunLen == 5

\* the batch size of the runs with long lists
LongRunBatchSize == 20

\* the lengths of the subscriber lists that reach the daily limit
LongRunLens == {SES_DAILY_LIMIT, SES_DAILY_LIMIT + 1, SES_DAILY_LIMIT + DEFAULT_BATCH_SIZE}

\* the batch lists of the runs: what batch_subscribers makes of a list, and a
\* list with a batch without subscribers
RunBatchLists ==
    {batch_subscribers([i \in 1..n |-> EmailOf(i)], size) :
        n \in 0..MaxRunLen, size \in 1..(MaxRunLen - 1)}
    \cup {batch_subscribers([i \in 1..n |-> EmailOf(i)], LongRunBatchSize) :
            n \in LongRunLens}
    \cup {<<<<EmailOf(1)>>, <<>>, <<EmailOf(2), EmailOf(3)>>>>}

\* which sends succeed: all, none, those of the subscribers of odd or of even
\* position, or all but those of the first subscriber of every ten
DeliveryPatterns == {"all", "none", "odd", "even", "nine_of_ten"}

\* delivers for the subscribers of the batches, by their position
DeliversBy(pattern, subscriber_batches) ==
    LET subscribers == Flatten(subscriber_batches)
    IN [email \in Range(subscribers) |->
           LET i == CHOOSE k \in 1..Len(subscribers) : subscribers[k] = email
           IN CASE pattern = "all" -> TRUE
                [] pattern = "none" -> FALSE
                [] pattern = "odd" -> i % 2 = 1
                [] pattern = "even" -> i % 2 = 0
                [] pattern = "nine_of_ten" -> i % 10 # 1]

SendRunInit ==
    /\ StateAfterConstruction
    /\ lastCall \in {Pending("send_run", [subscriber_batches |-> subscriber_batches,
                                          pattern |-> pattern]) :
                        subscriber_batches \in RunBatchLists,
                        pattern \in DeliveryPatterns}

SendRun ==
    /\ IsPending("send_run")
    /\ \E done \in {send_to_all_batches(NewSender(ses_accepted),
                                        lastCall.args.subscriber_batches,
                                        DeliversBy(lastCall.args.pattern,
                                                   lastCall.args.subscriber_batches))} :
           /\ emails_sent_today' = done.st.emails_sent_today
           /\ send_errors' = done.st.send_errors
           /\ ses_accepted' = done.st.ses_accepted
           /\ lastCall' = Finished("send_run", lastCall.args,
                                   [result |-> done.result, trace |-> done.st.trace])
    /\ UNCHANGED <<tableVars, contentVars>>

SendRunSpec == SendRunInit /\ [][SendRun]_vars

\* the positions of the send attempts in a trace
SendPositions(trace) == {p \in 1..Len(trace) : trace[p].kind = "send"}

\* the batch a subscriber of a run is in
BatchOf(subscriber_batches, email) ==
    CHOOSE b \in 1..Len(subscriber_batches) : email \in Range(subscriber_batches[b])

\* C24: in a send_to_all_batches run, between two consecutive send attempts
\* of one batch there is one pause, of 1 second, and between the last send
\* attempt of a batch and the first of the next batch there is one pause, of
\* 2 seconds (one such pause for every batch passed, when batches without
\* a send lie between).
C24_PausesBetweenSends ==
    IsFinished("send_run") =>
        LET trace == lastCall.ret.trace
            batches == lastCall.args.subscriber_batches
            sends == SendPositions(trace)
        IN \A p \in sends :
              \A q \in {r \in sends : r > p} :
                 (\A r \in (p + 1)..(q - 1) : r \notin sends) =>
                    LET from == BatchOf(batches, trace[p].email)
                        to == BatchOf(batches, trace[q].email)
                    IN /\ q > p + 1
                       /\ from = to =>
                             /\ q = p + 2
                             /\ trace[p + 1] = SleepEvent(1)
                       /\ from # to =>
                             /\ q - p - 1 = to - from
                             /\ \A r \in (p + 1)..(q - 1) : trace[r] = SleepEvent(2)

\* three subscribers in batches of two: a second between the first two
\* sends, two seconds before the third, the second send having failed
C24_Witness ==
    /\ IsFinished("send_run")
    /\ lastCall.args.subscriber_batches =
          <<<<EmailOf(1), EmailOf(2)>>, <<EmailOf(3)>>>>
    /\ lastCall.args.pattern = "odd"
    /\ lastCall.ret.trace = <<SendEvent(EmailOf(1)), SleepEvent(1), SendEvent(EmailOf(2)),
                              SleepEvent(2), SendEvent(EmailOf(3))>>

\* the send attempts of a run
Attempts == Cardinality(SendPositions(lastCall.ret.trace))

\* C28 as stated: in one send_to_all_batches run on a fresh EmailSender the
\* number of send attempts, successful or failed, never exceeds
\* SES_DAILY_LIMIT (200).
C28_AttemptsWithinLimit ==
    IsFinished("send_run") => Attempts <= 200

\* C28 amended: in one send_to_all_batches run on a fresh EmailSender the
\* number of successful sends never exceeds SES_DAILY_LIMIT (200) and no
\* send is attempted once 200 sends have succeeded; failed attempts are not
\* counted, so the number of attempts is at most 200 plus the number of
\* failed attempts.
C28_SuccessesWithinLimit ==
    IsFinished("send_run") =>
        LET trace == lastCall.ret.trace
            result == lastCall.ret.result
            delivers == DeliversBy(lastCall.args.pattern,
                                   lastCall.args.subscriber_batches)
            sends == SendPositions(trace)
        IN /\ result.successful <= 200
           /\ ses_accepted = result.successful
           /\ emails_sent_today = result.successful
           /\ Attempts = result.successful + result.failed
           /\ Attempts <= 200 + result.failed
           /\ \A p \in sends :
                 Cardinality({q \in sends : q < p /\ delivers[trace[q].email]}) < 200

\* 250 subscribers, every send succeeds: 200 sent, the rest skipped
C28_Witness ==
    /\ IsFinished("send_run")
    /\ lastCall.args.pattern = "all"
    /\ lastCall.ret.result.total_subscribers = 250
    /\ lastCall.ret.result.successful = 200
    /\ lastCall.ret.result.skipped = 50
    /\ Attempts = 200

----------------------------------------------------------------------------
(* Accounting of the send results *)

\* C26: the result of send_batch has successful + failed + skipped = total,
\* the length of the batch, and the result of send_to_all_batches has
\* successful + failed + skipped = total_subscribers, the sum of the lengths
\* of the batches, whatever the outcomes of the sends; the sends made are the
\* successful and the failed ones.
C26_AccountingConserved ==
    IsFinished("send_run") =>
        LET ret == lastCall.ret.result
            batches == lastCall.args.subscriber_batches
        IN /\ ret.total_subscribers = SumLen(batches)
           /\ ret.successful + ret.failed + ret.skipped = ret.total_subscribers
           /\ Attempts = ret.successful + ret.failed
           /\ \A k \in 1..Len(ret.batch_results) :
                 LET batch == ret.batch_results[k].result
                 IN /\ batch.total = Len(batches[ret.batch_results[k].batch_number])
                    /\ batch.successful + batch.failed + batch.skipped = batch.total
                    /\ Len(Succeeded(batch.results)) = batch.successful
                    /\ Len(Failed(batch.results)) = batch.failed

\* a run with a batch that is cut to the quota, with a send that succeeds and
\* one that fails in that batch, and a batch that is skipped after it
C26_Witness ==
    /\ IsFinished("send_run")
    /\ \E k \in 1..Len(lastCall.ret.result.batch_results) :
          LET batch == lastCall.ret.result.batch_results[k].result
          IN /\ batch.successful >= 1
             /\ batch.failed >= 1
             /\ batch.skipped >= 1
    /\ lastCall.ret.result.failed >= 2
    /\ lastCall.ret.result.skipped >= 2

----------------------------------------------------------------------------
(* Unsubscribed records and repeated subscriptions *)

IsUnsubscribed(item) == item # Absent /\ item.status = "unsubscribed"

\* C27: once the status of a record is unsubscribed, no confirm_subscriber
\* call, with whatever token, changes it: the record is still unsubscribed
\* after the call.
C27_UnsubscribedStableUnderConfirm ==
    [][\A email \in Emails :
          (IsUnsubscribed(table[email]) /\ lastCall'.op = "confirm_subscriber")
          => IsUnsubscribed(table'[email])
      ]_vars

\* C29: after add_subscriber(email, t) returns normally, for an email with or
\* without a record, the confirmation token stored for the email is t (the
\* token that a confirm_subscriber(email, t) is compared with).
C29_AddStoresGivenToken ==
    (IsCall("add_subscriber") /\ lastCall.raised = None) =>
        /\ table[lastCall.email] # Absent
        /\ table[lastCall.email].confirmation_token = lastCall.token
        /\ confirm_subscriber(table, lastCall.email, lastCall.token, None).ret = TRUE

----------------------------------------------------------------------------
(* Two concurrent add_subscriber calls for one email *)

\* the two invocations of the subscribe endpoint that run at the same time
Callers == {1, 2}

\* the email both calls add
RacedEmail == EmailOf(1)

\* a call of add_subscriber(email, confirmation_token) at its start; pc is
\* its position: before it builds its Subscriber ("build"), before its
\* put_item, before the get_item of the ConditionalCheckFailedException
\* branch, and after its return ("returned")
NewAddCall(confirmation_token) ==
    [pc |-> "build", confirmation_token |-> confirmation_token,
     subscriber |-> Absent, wrote |-> FALSE, ret |-> Absent]

RaceInit ==
    /\ StateAfterConstruction
    /\ lastCall \in {[op |-> "add_subscriber_race", pending |-> TRUE,
                      calls |-> [c \in Callers |-> NewAddCall(tokens[c])]] :
                        tokens \in [Callers -> ConfirmationTokens]}

\* the call builds its Subscriber: the clock is read for subscribed_date and
\* generate_unsubscribe_token returns a random value
RaceBuild(c) ==
    /\ lastCall.op = "add_subscriber_race"
    /\ lastCall.calls[c].pc = "build"
    /\ \E unsubscribe_token \in UnsubscribeTokens :
          lastCall' = [lastCall EXCEPT
                          !.calls[c].subscriber =
                              Subscriber(RacedEmail, now, "PENDING_CONFIRMATION",
                                         lastCall.calls[c].confirmation_token,
                                         unsubscribe_token),
                          !.calls[c].pc = "put_item"]
    /\ UNCHANGED <<table, now, senderVars, contentVars>>

\* the conditional put_item of the call: it returns its Subscriber when the
\* write is made, and goes on to get_subscriber when the condition fails
RacePut(c) ==
    /\ lastCall.op = "add_subscriber_race"
    /\ lastCall.calls[c].pc = "put_item"
    /\ \E put \in {put_item_if_absent(table,
                                      to_dynamodb_item(lastCall.calls[c].subscriber))} :
          /\ table' = put.tbl
          /\ lastCall' =
                IF put.error = None
                THEN [lastCall EXCEPT
                         !.calls[c].wrote = TRUE,
                         !.calls[c].ret = lastCall.calls[c].subscriber,
                         !.calls[c].pc = "returned"]
                ELSE [lastCall EXCEPT !.calls[c].pc = "get_item"]
    /\ UNCHANGED <<now, senderVars, contentVars>>

\* return self.get_subscriber(email)
RaceGet(c) ==
    /\ lastCall.op = "add_subscriber_race"
    /\ lastCall.calls[c].pc = "get_item"
    /\ \E got \in {get_subscriber(table, RacedEmail, None)} :
          lastCall' = [lastCall EXCEPT
                          !.calls[c].ret = got.ret,
                          !.calls[c].pc = "returned"]
    /\ UNCHANGED <<table, now, senderVars, contentVars>>

RaceNext ==
    \/ \E c \in Callers : RaceBuild(c)
    \/ \E c \in Callers : RacePut(c)
    \/ \E c \in Callers : RaceGet(c)
    \/ Tick

RaceSpec == RaceInit /\ [][RaceNext]_vars

\* both calls have returned
RaceOver == \A c \in Callers : lastCall.calls[c].pc = "returned"

\* the calls whose conditional write was made
Winners == {c \in Callers : lastCall.calls[c].wrote}

----------------------------------------------------------------------------
(* The table client's operations under the retry decorator *)

\* the requests the operations make to the table service
RequestKinds == {"put_item", "get_item", "update_item", "scan"}

\* the public operations of DynamoDBClient, each one decorated
ClientOps == {"add_subscriber", "get_subscriber", "update_subscriber_status",
              "get_active_subscribers", "confirm_subscriber"}

\* a request of one kind fails with a service error at its first attempts, up
\* to this many; a request that fails so many times fails at every attempt
\* a call makes
MaxFailing == 9

\* what a call runs in: the table, how many attempts of each request the
\* service answers with an error, the attempts made of each request so far,
\* and the sleeps of the decorator so far
CallEnv(tbl, failing, jitter) ==
    [tbl |-> tbl, failing |-> failing, jitter |-> jitter,
     attempts |-> [kind \in RequestKinds |-> 0], sleeps |-> <<>>]

\* one attempt of a request is made
attempt_request(env, kind) == [env EXCEPT !.attempts[kind] = @ + 1]

\* the attempt of the request that is made next fails with a service error
RequestFails(env, kind) == env.attempts[kind] < env.failing[kind]

CallReturned(env, value) == [env |-> env, raised |-> None, ret |-> value]
CallRaised(env, error) == [env |-> env, raised |-> error, ret |-> Absent]

RECURSIVE wrapper(_, _, _, _)
RECURSIVE client_operation(_, _, _, _)

\* wrapper of exponential_backoff_retry around the operation op, from the
\* attempt given on; a service error is a ClientError
wrapper(op, env, args, attempt) ==
    LET called == client_operation(op, env, args, attempt)
        delay == Min(BASE_DELAY * Pow(BACKOFF_MULTIPLIER, attempt), MAX_DELAY)
        slept == delay + (delay * env.jitter) \div 100
    IN IF called.raised = None THEN called
       ELSE IF attempt = MAX_RETRIES - 1 THEN called
       ELSE wrapper(op, [called.env EXCEPT !.sleeps = Append(@, slept)],
                    args, attempt + 1)

\* the body of the operation op of DynamoDBClient, run at the attempt given
\* of its decorator
client_operation(op, env, args, attempt) ==
    CASE op = "get_subscriber" ->
            LET asked == attempt_request(env, "get_item")
            IN IF RequestFails(env, "get_item")
               THEN CallRaised(asked, "ServiceError")
               ELSE IF asked.tbl[args.email] # Absent
               THEN CallReturned(asked, from_dynamodb_item(asked.tbl[args.email]))
               ELSE CallReturned(asked, Absent)
      [] op = "add_subscriber" ->
            LET subscriber == Subscriber(args.email, args.clock, "PENDING_CONFIRMATION",
                                         args.confirmation_token,
                                         args.unsubscribe_tokens[attempt])
                asked == attempt_request(env, "put_item")
                put == put_item_if_absent(asked.tbl, to_dynamodb_item(subscriber))
            IN IF RequestFails(env, "put_item")
               THEN CallRaised(asked, "ServiceError")
               ELSE IF put.error = None
               THEN CallReturned([asked EXCEPT !.tbl = put.tbl], subscriber)
               ELSE wrapper("get_subscriber", asked, args, 0)
      [] op = "update_subscriber_status" ->
            LET asked == attempt_request(env, "update_item")
                update == update_item_status(asked.tbl, args.email,
                                             StatusValue(args.status))
            IN IF RequestFails(env, "update_item")
               THEN CallRaised(asked, "ServiceError")
               ELSE IF update.error = None
               THEN CallReturned([asked EXCEPT !.tbl = update.tbl], TRUE)
               ELSE CallReturned(asked, FALSE)
      [] op = "get_active_subscribers" ->
            LET asked == attempt_request(env, "scan")
            IN IF RequestFails(env, "scan")
               THEN CallRaised(asked, "ServiceError")
               ELSE CallReturned(asked, get_active_subscribers(asked.tbl))
      [] op = "confirm_subscriber" ->
            LET got == wrapper("get_subscriber", env, args, 0)
            IN IF got.raised # None THEN got
               ELSE IF got.ret = Absent THEN CallReturned(got.env, FALSE)
               ELSE IF got.ret.confirmation_token # args.confirmation_token
               THEN CallReturned(got.env, FALSE)
               ELSE wrapper("update_subscriber_status", got.env,
                            [args EXCEPT !.status = "ACTIVE"], 0)

\* how many attempts of a request fail: none, the first, the first
\* MAX_RETRIES, or all
FailingTimes == {0, 1, MAX_RETRIES, MaxFailing}

\* the requests that fail during a call: those of one kind, at the first
\* attempts, or none
Failings ==
    {[kind \in RequestKinds |-> IF kind = failed THEN times ELSE 0] :
        failed \in RequestKinds, times \in FailingTimes}

\* what generate_unsubscribe_token returns at the attempts of an
\* add_subscriber call: one value at the first, another or the same at
\* the later ones
UnsubscribeTokensByAttempt ==
    {[attempt \in 0..(MAX_RETRIES - 1) |-> IF attempt = 0 THEN first ELSE later] :
        first \in {"k1"}, later \in UnsubscribeTokens}

\* the arguments of a call, and the requests that fail during it; status is
\* the one of update_subscriber_status
ClientArgs(email, confirmation_token, status, unsubscribe_tokens, failing) ==
    [email |-> email, confirmation_token |-> confirmation_token,
     status |-> status, clock |-> 0, unsubscribe_tokens |-> unsubscribe_tokens,
     failing |-> failing]

\* the calls a caller makes of the operations of the client
ClientCalls ==
    {Pending("add_subscriber",
             ClientArgs(email, confirmation_token, None, unsubscribe_tokens, failing)) :
        email \in Emails, confirmation_token \in ConfirmationTokens,
        unsubscribe_tokens \in UnsubscribeTokensByAttempt, failing \in Failings}
    \cup {Pending("get_subscriber", ClientArgs(email, None, None, <<>>, failing)) :
             email \in Emails, failing \in Failings}
    \cup {Pending("update_subscriber_status",
                  ClientArgs(email, None, status, <<>>, failing)) :
             email \in Emails, status \in CallerStatuses, failing \in Failings}
    \cup {Pending("get_active_subscribers",
                  ClientArgs(None, None, None, <<>>, failing)) :
             failing \in Failings}
    \cup {Pending("confirm_subscriber",
                  ClientArgs(email, confirmation_token, None, <<>>, failing)) :
             email \in Emails, confirmation_token \in ConfirmationTokens,
             failing \in Failings}

\* a client of a table with records, and a call about to be made
ClientInit ==
    /\ emails_sent_today = 0
    /\ send_errors = <<>>
    /\ ses_accepted = 0
    /\ now = 0
    /\ today = 0
    /\ bucket = EmptyBucket
    /\ table \in SubscriberTables
    /\ lastCall \in ClientCalls

\* what the call of the operation op about to be made can come to, under
\* its decorator
ClientOutcomes(op) ==
    {wrapper(op, CallEnv(table, lastCall.args.failing, jitter), lastCall.args, 0) :
        jitter \in JitterPercents}

\* what a call has come to: the attempts made of each request, the sleeps,
\* and the error raised or the value returned
ClientResult(done) ==
    [attempts |-> done.env.attempts, sleeps |-> done.env.sleeps,
     raised |-> done.raised, value |-> done.ret]

RetriedAddSubscriber ==
    /\ IsPending("add_subscriber")
    /\ \E done \in ClientOutcomes("add_subscriber") :
          /\ table' = done.env.tbl
          /\ lastCall' = Finished("add_subscriber", lastCall.args, ClientResult(done))
    /\ UNCHANGED <<now, senderVars, contentVars>>

RetriedGetSubscriber ==
    /\ IsPending("get_subscriber")
    /\ \E done \in ClientOutcomes("get_subscriber") :
          /\ table' = done.env.tbl
          /\ lastCall' = Finished("get_subscriber", lastCall.args, ClientResult(done))
    /\ UNCHANGED <<now, senderVars, contentVars>>

RetriedUpdateSubscriberStatus ==
    /\ IsPending("update_subscriber_status")
    /\ \E done \in ClientOutcomes("update_subscriber_status") :
          /\ table' = done.env.tbl
          /\ lastCall' = Finished("update_subscriber_status", lastCall.args, ClientResult(done))
    /\ UNCHANGED <<now, senderVars, contentVars>>

RetriedGetActiveSubscribers ==
    /\ IsPending("get_active_subscribers")
    /\ \E done \in ClientOutcomes("get_active_subscribers") :
          /\ table' = done.env.tbl
          /\ lastCall' = Finished("get_active_subscribers", lastCall.args, ClientResult(done))
    /\ UNCHANGED <<now, senderVars, contentVars>>

RetriedConfirmSubscriber ==
    /\ IsPending("confirm_subscriber")
    /\ \E done \in ClientOutcomes("confirm_subscriber") :
          /\ table' = done.env.tbl
          /\ lastCall' = Finished("confirm_subscriber", lastCall.args, ClientResult(done))
    /\ UNCHANGED <<now, senderVars, contentVars>>

ClientNext ==
    \/ RetriedAddSubscriber
    \/ RetriedGetSubscriber
    \/ RetriedUpdateSubscriberStatus
    \/ RetriedGetActiveSubscribers
    \/ RetriedConfirmSubscriber

ClientSpec == ClientInit /\ [][ClientNext]_vars

\* a call of the client under the decorator has been made
IsClientCall == lastCall.op \in ClientOps /\ ~ lastCall.pending

\* C30: one call of a public operation of DynamoDBClient, the operations that
\* call other decorated operations included, makes at most MAX_RETRIES (3)
\* attempts of a table request that fails with a service error at every
\* attempt.
C30_AtMostThreeAttempts ==
    IsClientCall =>
        \A kind \in RequestKinds :
            (lastCall.ret.attempts[kind] >= 1
             /\ lastCall.args.failing[kind] >= lastCall.ret.attempts[kind])
            => lastCall.ret.attempts[kind] <= MAX_RETRIES

====
